---- MODULE Spec2Model ----
(***************************************************************************)
(* Market data aggregation core of fin-chat3: the circuit breaker, the     *)
(* LRU/TTL cache, the provider optimizer, the provider registries and the  *)
(* background refresh worker, each as a state machine over one shared      *)
(* clock.  Every subsystem has its own specification (SpecBreaker,         *)
(* SpecCache, ...) that moves only that subsystem's variables.             *)
(***************************************************************************)
EXTENDS Integers, Sequences, FiniteSets, TLC

VARIABLES
    now,        \* Date.now(), in milliseconds since the process started
    cb,         \* one CircuitBreaker: state, failureCount, lastFailureTime, successCount
    pending,    \* wrapped operations awaited inside execute: [normal, probe]
    lastEvent,  \* what the last breaker step did
    streak,     \* history: successes in a row since HALF_OPEN was entered
    thrown,     \* the error the last execute call threw: [original, raised]
    cache,      \* LRUCache.cache: the Map's entries in insertion order
    lastOp,     \* the last cache operation: [op, key, ret, evicted]
    opClock,    \* history: number of cache operations so far
    lastTouch,  \* history: per key, opClock of its last set or get hit (0: never)
    lastSet,    \* history: per key, the set that stored it, until deleted or evicted
    metrics,    \* ProviderOptimizer.performanceMetrics, per provider id
    history,    \* ProviderOptimizer.requestHistory, per provider id
    optReq,     \* the recordProviderRequest call awaiting its operation
    optOrder,   \* what the last optimizeProviderOrder call returned
    optPrio,    \* history: the dynamic priorities that call computed
    skipRet,    \* the last shouldSkipProvider call: [id, ret, m]
    optRet,     \* how the last recordProviderRequest call ended
    optOps,     \* history: number of optimizer steps so far
    swept,      \* the time the cleanupMetrics timer fired last (0: never)
    domain,     \* the registry walked: "crypto" or "stock"
    hasKey,     \* process.env: whether each key-requiring provider's key is set
    breakers,   \* cryptoCircuitBreakers / stockCircuitBreakers, per provider id
    walk,       \* the fetchSnapshot invocation in progress
    walks,      \* history: number of fetchSnapshot invocations so far
    isRunning,  \* MarketDataWorker.isRunning
    intervalId, \* cryptoIntervalId / stockIntervalId: a timer id, or NoTimer
    timers,     \* the interval timers armed in the runtime
    nextTimerId,\* the id setInterval returns next
    callbacks,  \* number of updateCallbacks registered
    ticks,      \* the fetchWithRetry invocations in flight
    db,         \* storage: the records saved per domain
    lastDone,   \* history: the fetchWithRetry invocation that returned last
    read,       \* the getMarketSnapshot call in progress, or the last one
    reads,      \* history: number of getMarketSnapshot calls so far
    norm        \* one normalizeMarketData call: its arguments and how it ended

breakerVars == <<cb, pending, lastEvent, streak, thrown>>
cacheVars == <<cache, lastOp, opClock, lastTouch, lastSet>>
optVars ==
    <<metrics, history, optReq, optOrder, optPrio, skipRet, optRet, optOps, swept>>
regVars == <<domain, hasKey, breakers, walk, walks>>
workerVars ==
    <<isRunning, intervalId, timers, nextTimerId, callbacks, ticks, db, lastDone>>
serviceVars == <<read, reads>>
normVars == <<norm>>
vars ==
    <<now, breakerVars, cacheVars, optVars, regVars, workerVars, serviceVars,
      normVars>>

nonBreakerVars == <<cacheVars, optVars, regVars, workerVars, serviceVars, normVars>>
nonCacheVars == <<breakerVars, optVars, regVars, workerVars, serviceVars, normVars>>
nonOptVars == <<breakerVars, cacheVars, regVars, workerVars, serviceVars, normVars>>
nonRegVars ==
    <<breakerVars, cacheVars, optOrder, optPrio, skipRet, optRet, optReq, optOps,
      swept, workerVars, serviceVars, normVars>>
nonWorkerVars == <<breakerVars, optVars, regVars, serviceVars, normVars>>
nonServiceVars ==
    <<breakerVars, optVars, regVars, isRunning, intervalId, timers, nextTimerId,
      callbacks, ticks, lastDone, lastOp, opClock, lastTouch, lastSet, normVars>>
nonNormVars ==
    <<now, breakerVars, cacheVars, optVars, regVars, workerVars, serviceVars>>

-----------------------------------------------------------------------------
(* The clock *)

\* number of clock steps a behaviour may take
MaxTicks == 8

\* CircuitBreaker constructor defaults
failureThreshold == 5
recoveryTimeMs == 30000
successThreshold == 2

\* granularity of the modelled clock: every window and TTL of the program
\* (5 s, 10 s, 15 s, 30 s) is a multiple of it
TimeStep == recoveryTimeMs \div 6

MaxNow == MaxTicks * TimeStep

-----------------------------------------------------------------------------
(* CircuitBreaker *)

\* overlapping execute calls on one breaker
MaxPending == 2

\* cap on failureCount, which the code never bounds
MaxFailureCount == 7

NewBreaker ==
    [state |-> "CLOSED", failureCount |-> 0, lastFailureTime |-> 0, successCount |-> 0]

\* CircuitRejects without the window test
CircuitRejects_Always(b, t) == b.state = "OPEN"

\* CircuitRejects with the window test inverted
CircuitRejects_Inverted(b, t) ==
    b.state = "OPEN" /\ t - b.lastFailureTime > recoveryTimeMs

\* execute, line 20-22: the call is refused while OPEN inside the recovery window
CircuitRejects(b, t) ==
    b.state = "OPEN" /\ t - b.lastFailureTime < recoveryTimeMs

\* execute, line 20-27: the breaker as the admitted call leaves it before awaiting
ExecuteEnter(b, t) ==
    IF b.state = "OPEN" /\ ~CircuitRejects(b, t)
    THEN [b EXCEPT !.state = "HALF_OPEN", !.successCount = 0]
    ELSE b

\* the errors a wrapped operation rejects with, and the breaker's own
OperationErrors == {"timeout", "http"}
CircuitOpenError == "Circuit breaker is OPEN"
NoError == "none"
NothingThrown == [original |-> NoError, raised |-> NoError]

\* onSuccess that closes the breaker at the first success
OnSuccess_CloseAtOnce(b) == [b EXCEPT !.failureCount = 0, !.state = "CLOSED"]

\* onSuccess, line 39-50
OnSuccess(b) ==
    LET b0 == [b EXCEPT !.failureCount = 0]
    IN  IF b0.state = "HALF_OPEN"
        THEN LET b1 == [b0 EXCEPT !.successCount = @ + 1]
             IN  IF b1.successCount >= successThreshold
                 THEN [b1 EXCEPT !.state = "CLOSED"]
                 ELSE b1
        ELSE [b0 EXCEPT !.state = "CLOSED"]

\* onFailure that opens the breaker one failure late
OnFailure_Late(b, t) ==
    LET b1 == [b EXCEPT !.failureCount = @ + 1, !.lastFailureTime = t]
    IN  IF b1.failureCount > failureThreshold
        THEN [b1 EXCEPT !.state = "OPEN"]
        ELSE b1

\* onFailure that opens the breaker one failure early
OnFailure_Early(b, t) ==
    LET b1 == [b EXCEPT !.failureCount = @ + 1, !.lastFailureTime = t]
    IN  IF b1.failureCount >= failureThreshold - 1
        THEN [b1 EXCEPT !.state = "OPEN"]
        ELSE b1

\* onFailure, line 52-59
OnFailure(b, t) ==
    LET b1 == [b EXCEPT !.failureCount = @ + 1, !.lastFailureTime = t]
    IN  IF b1.failureCount >= failureThreshold
        THEN [b1 EXCEPT !.state = "OPEN"]
        ELSE b1

\* execute up to its await: either the throw of line 22, or the operation is
\* invoked (after the OPEN -> HALF_OPEN move when the window has elapsed)
CBExecute ==
    \/ /\ CircuitRejects(cb, now)
       /\ lastEvent' = "rejected"
       /\ thrown' = [original |-> NoError, raised |-> CircuitOpenError]
       /\ UNCHANGED <<now, cb, pending, streak, nonBreakerVars>>
    \/ /\ ~CircuitRejects(cb, now)
       /\ pending.normal + pending.probe < MaxPending
       /\ cb' = ExecuteEnter(cb, now)
       /\ pending' = IF cb'.state = "HALF_OPEN"
                     THEN [pending EXCEPT !.probe = @ + 1]
                     ELSE [pending EXCEPT !.normal = @ + 1]
       /\ lastEvent' = "invoked"
       /\ thrown' = NothingThrown
       /\ streak' = IF cb.state = "OPEN" THEN 0 ELSE streak
       /\ UNCHANGED <<now, nonBreakerVars>>

\* the awaited operation resolves: line 31
CBResolve ==
    /\ \E kind \in {"normal", "probe"} :
          /\ pending[kind] > 0
          /\ pending' = [pending EXCEPT ![kind] = @ - 1]
    /\ cb' = OnSuccess(cb)
    /\ lastEvent' = "success"
    /\ thrown' = NothingThrown
    /\ streak' = IF streak < successThreshold THEN streak + 1 ELSE streak
    /\ UNCHANGED <<now, nonBreakerVars>>

\* the awaited operation rejects: line 33-35, the catch block throws what
\* it caught
CBRejectOp ==
    /\ \E kind \in {"normal", "probe"} :
          /\ pending[kind] > 0
          /\ pending' = [pending EXCEPT ![kind] = @ - 1]
    /\ cb.failureCount < MaxFailureCount
    /\ cb' = OnFailure(cb, now)
    /\ lastEvent' = "failure"
    /\ \E error \in OperationErrors :
          thrown' = [original |-> error, raised |-> error]
    /\ streak' = 0
    /\ UNCHANGED <<now, nonBreakerVars>>

BreakerTick ==
    /\ now + TimeStep <= MaxNow
    /\ now' = now + TimeStep
    /\ lastEvent' = "tick"
    /\ UNCHANGED <<cb, pending, streak, thrown, nonBreakerVars>>

-----------------------------------------------------------------------------
(* LRUCache *)

\* constructor argument of the modelled cache
Capacity == 2

\* the keys in use: one more than fits
Keys == 1 .. (Capacity + 1)


\* CACHE_TTL of the market cache
CRYPTO_SNAPSHOT == 15000
STOCK_SNAPSHOT == 30000

\* what the worker writes: a crypto snapshot with the crypto TTL, a stock
\* snapshot with the stock TTL
Writes == {[value |-> "crypto", ttlMs |-> CRYPTO_SNAPSHOT],
           [value |-> "stock", ttlMs |-> STOCK_SNAPSHOT]}

\* cache operations in one behaviour: enough to fill the cache, touch an
\* entry and overflow it
MaxOps == Capacity + 2

\* the cache's clock steps by the shortest TTL, up to the first step at which
\* an entry of the longest TTL written at the start has expired
CacheTimeStep == CRYPTO_SNAPSHOT
MaxCacheTicks == STOCK_SNAPSHOT \div CacheTimeStep + 1

Undefined == "undefined"
NoSet == [at |-> -1, ttl |-> -1, value |-> Undefined]

KeysOf(c) == {c[i].key : i \in 1 .. Len(c)}

\* Map.get
Lookup(c, k) == c[CHOOSE i \in 1 .. Len(c) : c[i].key = k]

\* Map.delete
Remove(c, k) == SelectSeq(c, LAMBDA e : e.key # k)

\* get that leaves a hit where it is
CacheGet_NoMove(c, k, t) ==
    IF k \notin KeysOf(c)
    THEN [cache |-> c, ret |-> Undefined]
    ELSE LET item == Lookup(c, k)
         IN  IF t > item.expiry
             THEN [cache |-> Remove(c, k), ret |-> Undefined]
             ELSE [cache |-> c, ret |-> item.value]

CacheGet(c, k, t) ==
    IF k \notin KeysOf(c)
    THEN [cache |-> c, ret |-> Undefined]
    ELSE LET item == Lookup(c, k)
         IN  IF t > item.expiry
             THEN [cache |-> Remove(c, k), ret |-> Undefined]
             ELSE [cache |-> Append(Remove(c, k), item), ret |-> item.value]

\* set that never makes room
CacheSet_NeverEvicts(c, k, v, ttlMs, t) ==
    Append(Remove(c, k), [key |-> k, value |-> v, expiry |-> t + ttlMs])

\* set that makes room whenever the cache is full, the key stored or not
CacheSet_AlwaysEvicts(c, k, v, ttlMs, t) ==
    LET c0 == IF Len(c) >= Capacity /\ Len(c) > 0 THEN Tail(c) ELSE c
    IN  Append(Remove(c0, k), [key |-> k, value |-> v, expiry |-> t + ttlMs])

\* set, line 25-40
CacheSet(c, k, v, ttlMs, t) ==
    LET c1 == IF k \in KeysOf(c)
              THEN Remove(c, k)
              ELSE IF Len(c) >= Capacity /\ Len(c) > 0
                   THEN Tail(c)
                   ELSE c
    IN  Append(c1, [key |-> k, value |-> v, expiry |-> t + ttlMs])

\* has that moves a hit to the most recently used end, as get does
CacheHas_Touch(c, k, t) ==
    IF k \notin KeysOf(c)
    THEN [cache |-> c, ret |-> FALSE]
    ELSE IF t > Lookup(c, k).expiry
         THEN [cache |-> Remove(c, k), ret |-> FALSE]
         ELSE [cache |-> Append(Remove(c, k), Lookup(c, k)), ret |-> TRUE]

\* has, line 42-52
CacheHas(c, k, t) ==
    IF k \notin KeysOf(c)
    THEN [cache |-> c, ret |-> FALSE]
    ELSE IF t > Lookup(c, k).expiry
         THEN [cache |-> Remove(c, k), ret |-> FALSE]
         ELSE [cache |-> c, ret |-> TRUE]

CacheDelete(c, k) ==
    [cache |-> Remove(c, k), ret |-> k \in KeysOf(c)]

Get(k) ==
    /\ opClock < MaxOps
    /\ LET r == CacheGet(cache, k, now)
       IN  /\ cache' = r.cache
           /\ lastOp' = [op |-> "get", key |-> k, ret |-> r.ret, evicted |-> {}]
           /\ lastTouch' = IF k \in KeysOf(r.cache)
                           THEN [lastTouch EXCEPT ![k] = opClock + 1]
                           ELSE lastTouch
    /\ opClock' = opClock + 1
    /\ UNCHANGED <<now, lastSet, nonCacheVars>>

\* marketCache.set and what it leaves in the history variables
SetEffect(k, v, ttlMs) ==
    /\ cache' = CacheSet(cache, k, v, ttlMs, now)
    /\ lastOp' = [op |-> "set", key |-> k, ret |-> Undefined,
                  evicted |-> (KeysOf(cache) \ {k}) \ KeysOf(cache')]
    /\ lastTouch' = [lastTouch EXCEPT ![k] = opClock + 1]
    /\ lastSet' = [j \in Keys |->
                     IF j = k THEN [at |-> now, ttl |-> ttlMs, value |-> v]
                     ELSE IF j \in KeysOf(cache) /\ j \notin KeysOf(cache')
                          THEN NoSet
                          ELSE lastSet[j]]
    /\ opClock' = opClock + 1

Set(k, v, ttlMs) ==
    /\ opClock < MaxOps
    /\ SetEffect(k, v, ttlMs)
    /\ UNCHANGED <<now, nonCacheVars>>

Has(k) ==
    /\ opClock < MaxOps
    /\ LET r == CacheHas(cache, k, now)
       IN  /\ cache' = r.cache
           /\ lastOp' = [op |-> "has", key |-> k, ret |-> r.ret, evicted |-> {}]
    /\ opClock' = opClock + 1
    /\ UNCHANGED <<now, lastTouch, lastSet, nonCacheVars>>

Delete(k) ==
    /\ opClock < MaxOps
    /\ LET r == CacheDelete(cache, k)
       IN  /\ cache' = r.cache
           /\ lastOp' = [op |-> "delete", key |-> k, ret |-> r.ret, evicted |-> {}]
    /\ lastSet' = [lastSet EXCEPT ![k] = NoSet]
    /\ opClock' = opClock + 1
    /\ UNCHANGED <<now, lastTouch, nonCacheVars>>

Clear ==
    /\ opClock < MaxOps
    /\ cache' = <<>>
    /\ lastOp' = [op |-> "clear", key |-> 0, ret |-> Undefined, evicted |-> {}]
    /\ lastSet' = [j \in Keys |-> NoSet]
    /\ opClock' = opClock + 1
    /\ UNCHANGED <<now, lastTouch, nonCacheVars>>

CacheTick ==
    /\ now + CacheTimeStep <= MaxCacheTicks * CacheTimeStep
    /\ now' = now + CacheTimeStep
    /\ UNCHANGED <<cacheVars, nonCacheVars>>

CacheInit ==
    /\ cache = <<>>
    /\ lastOp = [op |-> "none", key |-> 0, ret |-> Undefined, evicted |-> {}]
    /\ opClock = 0
    /\ lastTouch = [k \in Keys |-> 0]
    /\ lastSet = [k \in Keys |-> NoSet]

NextCache ==
    \/ \E k \in Keys : Get(k)
    \/ \E k \in Keys, w \in Writes : Set(k, w.value, w.ttlMs)
    \/ \E k \in Keys : Has(k)
    \/ \E k \in Keys : Delete(k)
    \/ Clear
    \/ CacheTick

-----------------------------------------------------------------------------
(* Rational numbers [n, d] with d > 0, for the optimizer's ratios *)

Rat(n, d) == [n |-> n, d |-> d]
Int2Rat(i) == [n |-> i, d |-> 1]
RAdd(a, b) == [n |-> a.n * b.d + b.n * a.d, d |-> a.d * b.d]
RSub(a, b) == [n |-> a.n * b.d - b.n * a.d, d |-> a.d * b.d]
RMul(a, b) == [n |-> a.n * b.n, d |-> a.d * b.d]
RLess(a, b) == a.n * b.d < b.n * a.d
REq(a, b) == a.n * b.d = b.n * a.d
RMax(a, b) == IF RLess(a, b) THEN b ELSE a

-----------------------------------------------------------------------------
(* ProviderOptimizer *)

\* the first three providers of each registry, as its constructor sorts them
Providers == <<"binance", "coingecko", "coinpaprika">>
StockProviders == <<"iex", "finnhub", "yahoo">>

IdsOf(list) == {list[i] : i \in 1 .. Len(list)}
ProviderIds == IdsOf(Providers)

\* the crypto registry's list with the provider that wants an API key
CryptoRegistryProviders == Providers \o <<"cryptocompare">>

AllIds == IdsOf(CryptoRegistryProviders) \cup IdsOf(StockProviders)

\* the providers' priority fields
Priority(id) ==
    CASE id = "binance" -> 1
      [] id = "coingecko" -> 2
      [] id = "coinpaprika" -> 3
      [] id = "cryptocompare" -> 5
      [] id = "iex" -> 1
      [] id = "finnhub" -> 2
      [] id = "yahoo" -> 3

\* thresholds of shouldSkipProvider
SkipMinRequests == 5
SkipConsecutiveFailures == 10
SkipRateMinRequests == 20
SkipSlowMinRequests == 10
SkipResponseMs == 30000

\* thresholds of calculateDynamicPriority
FastResponseMs == 1000
SlowResponseMs == 5000
RecentSuccessMs == 60000

\* updateResponseTime keeps this many samples
HistorySize == 10

\* cleanupMetrics: its period, and the age at which metrics are dropped
CleanupIntervalMs == 300000
EvictAfterMs == 1800000

\* durations a provider call is let to take: just under the fast mark, just
\* over the slow mark, just over the skip mark
ResponseTimes == {FastResponseMs - 1, SlowResponseMs + 1, SkipResponseMs + 1}

NoMetrics == [totalRequests |-> -1]
NoReq == [id |-> "none"]
NoRet == [id |-> "none", ok |-> FALSE, responseTime |-> 0, thrown |-> NothingThrown]

\* getMetrics, line 137-144: the record of a provider first seen at time t
FreshMetrics(t) ==
    [successRate |-> Rat(1, 1),
     averageResponseTime |-> Rat(0, 1),
     recentFailures |-> 0,
     totalRequests |-> 0,
     lastSuccessTime |-> t,
     consecutiveFailures |-> 0]

\* getMetrics: the map after the lookup
WithMetrics(ms, id, t) ==
    IF ms[id] = NoMetrics THEN [ms EXCEPT ![id] = FreshMetrics(t)] ELSE ms

\* updateResponseTime that never drops a sample
UpdateResponseTime_Unbounded(h, responseTime) == Append(h, responseTime)

\* updateResponseTime, line 149-161
UpdateResponseTime(h, responseTime) ==
    LET h1 == Append(h, responseTime)
    IN  IF Len(h1) > HistorySize THEN Tail(h1) ELSE h1

\* calculateSuccessRate on the record getMetrics returns
CalculateSuccessRate(m) ==
    IF m.totalRequests = 0
    THEN Rat(1, 1)
    ELSE Rat(m.totalRequests - m.recentFailures, m.totalRequests)

RECURSIVE SumSeq(_)
SumSeq(h) == IF h = <<>> THEN 0 ELSE Head(h) + SumSeq(Tail(h))

CalculateAverageResponseTime(h) ==
    IF Len(h) = 0 THEN Rat(0, 1) ELSE Rat(SumSeq(h), Len(h))

\* recordProviderRequest, line 38-40 and 57-59: the counters of the record
CountRequest(m, ok, t) ==
    IF ok
    THEN [m EXCEPT !.totalRequests = @ + 1,
                   !.lastSuccessTime = t,
                   !.consecutiveFailures = 0]
    ELSE [m EXCEPT !.totalRequests = @ + 1,
                   !.recentFailures = @ + 1,
                   !.consecutiveFailures = @ + 1]

\* recordProviderRequest after its await, on the record m it captured at entry
\* (the record the map holds) and the provider's response times h
RecordOutcome(m, h, ok, responseTime, t) ==
    LET m1 == CountRequest(m, ok, t)
        h1 == UpdateResponseTime(h, responseTime)
    IN  [m |-> [m1 EXCEPT !.successRate = CalculateSuccessRate(m1),
                          !.averageResponseTime = CalculateAverageResponseTime(h1)],
         h |-> h1]

\* recordProviderRequest after its await when the record it captured at
\* entry, held, has been deleted from the map meanwhile: the counters of held
\* are updated, calculateSuccessRate reads the record getMetrics finds or
\* creates in the map, current, and line 49 / 64 puts held into the map
RecordOutcomeHeld(held, current, h, ok, responseTime, t) ==
    LET m1 == CountRequest(held, ok, t)
        h1 == UpdateResponseTime(h, responseTime)
    IN  [m |-> [m1 EXCEPT !.successRate = CalculateSuccessRate(current),
                          !.averageResponseTime = CalculateAverageResponseTime(h1)],
         h |-> h1]

\* cleanupMetrics, line 215-217: recentFailures of a record whose last
\* success is more than five minutes old goes down by one
SweepDecay(m, t) ==
    IF m.lastSuccessTime < t - CleanupIntervalMs
    THEN [m EXCEPT !.recentFailures = IF @ > 0 THEN @ - 1 ELSE 0]
    ELSE m

\* cleanupMetrics, line 220: the record is deleted
SweepEvicts(m, t) == m.lastSuccessTime < t - EvictAfterMs

\* shouldSkipProvider asking for more than ten consecutive failures
ShouldSkipProvider_StrictFailures(m) ==
    IF m.totalRequests < SkipMinRequests THEN FALSE
    ELSE IF m.consecutiveFailures > SkipConsecutiveFailures THEN TRUE
    ELSE IF m.totalRequests > SkipRateMinRequests /\ RLess(m.successRate, Rat(1, 10))
    THEN TRUE
    ELSE IF RLess(Int2Rat(SkipResponseMs), m.averageResponseTime)
            /\ m.totalRequests > SkipSlowMinRequests
    THEN TRUE
    ELSE FALSE

ShouldSkipProvider(m) ==
    IF m.totalRequests < SkipMinRequests THEN FALSE
    ELSE IF m.consecutiveFailures >= SkipConsecutiveFailures THEN TRUE
    ELSE IF m.totalRequests > SkipRateMinRequests /\ RLess(m.successRate, Rat(1, 10))
    THEN TRUE
    ELSE IF RLess(Int2Rat(SkipResponseMs), m.averageResponseTime)
            /\ m.totalRequests > SkipSlowMinRequests
    THEN TRUE
    ELSE FALSE

\* calculateDynamicPriority that returns the sum as it is
CalculateDynamicPriority_NoClamp(priority, m, t) ==
    LET p0 == Int2Rat(priority)
        p1 == RSub(p0, RMul(RSub(m.successRate, Rat(1, 2)), Int2Rat(2)))
        p2 == IF RLess(m.averageResponseTime, Int2Rat(FastResponseMs))
              THEN RSub(p1, Int2Rat(1)) ELSE p1
        p3 == IF RLess(Int2Rat(SlowResponseMs), m.averageResponseTime)
              THEN RAdd(p2, Int2Rat(2)) ELSE p2
        p4 == RAdd(p3, RMul(Int2Rat(m.consecutiveFailures), Rat(1, 2)))
    IN  IF t - m.lastSuccessTime < RecentSuccessMs
        THEN RSub(p4, Rat(1, 2)) ELSE p4

\* calculateDynamicPriority, line 178-207
CalculateDynamicPriority(priority, m, t) ==
    LET p0 == Int2Rat(priority)
        p1 == RSub(p0, RMul(RSub(m.successRate, Rat(1, 2)), Int2Rat(2)))
        p2 == IF RLess(m.averageResponseTime, Int2Rat(FastResponseMs))
              THEN RSub(p1, Int2Rat(1)) ELSE p1
        p3 == IF RLess(Int2Rat(SlowResponseMs), m.averageResponseTime)
              THEN RAdd(p2, Int2Rat(2)) ELSE p2
        p4 == RAdd(p3, RMul(Int2Rat(m.consecutiveFailures), Rat(1, 2)))
        p5 == IF t - m.lastSuccessTime < RecentSuccessMs
              THEN RSub(p4, Rat(1, 2)) ELSE p4
    IN  RMax(Int2Rat(0), p5)

\* optimizeProviderOrder, line 81-82: providerPriorities.get(id) || priority
SortKey(id, prio) ==
    IF prio[id].n = 0 THEN Int2Rat(Priority(id)) ELSE prio[id]

\* Array.prototype.sort is stable: x goes behind every element that does not
\* compare greater than it
RECURSIVE InsertByKey(_, _, _)
InsertByKey(sorted, x, prio) ==
    IF sorted = <<>> THEN <<x>>
    ELSE IF RLess(SortKey(x, prio), SortKey(Head(sorted), prio))
         THEN <<x>> \o sorted
         ELSE <<Head(sorted)>> \o InsertByKey(Tail(sorted), x, prio)

RECURSIVE SortByKey(_, _)
SortByKey(list, prio) ==
    IF list = <<>> THEN <<>>
    ELSE InsertByKey(SortByKey(SubSeq(list, 1, Len(list) - 1), prio),
                     list[Len(list)], prio)

\* optimizeProviderOrder, line 73-77: the priorities it computes
DynamicPriorities(list, ms, t) ==
    [id \in IdsOf(list) |-> CalculateDynamicPriority(Priority(id), ms[id], t)]

\* the metrics map after getMetrics has been called for every provider
RECURSIVE WithAllMetrics(_, _, _)
WithAllMetrics(ms, list, t) ==
    IF list = <<>> THEN ms
    ELSE WithAllMetrics(WithMetrics(ms, Head(list), t), Tail(list), t)

OptimizeProviderOrder(list, ms, t) ==
    SortByKey(list, DynamicPriorities(list, WithAllMetrics(ms, list, t), t))

\* steps of one optimizer behaviour
MaxOptOps == 2

\* the providers' records at the start of a behaviour: n requests made at
\* process start (time 0), all of one outcome and all settled after rt ms
RECURSIVE RunOf(_, _, _, _, _)
RunOf(r, ok, n, rt, t) ==
    IF n = 0 THEN r
    ELSE RunOf(RecordOutcome(r.m, r.h, ok, rt, t), ok, n - 1, rt, t)

SeedRuns ==
    {[ok |-> FALSE, n |-> SkipMinRequests - 1, rt |-> FastResponseMs - 1],
     [ok |-> FALSE, n |-> SkipConsecutiveFailures, rt |-> FastResponseMs - 1],
     [ok |-> FALSE, n |-> SkipRateMinRequests + 1, rt |-> SlowResponseMs + 1],
     [ok |-> TRUE, n |-> SkipSlowMinRequests, rt |-> SkipResponseMs + 1],
     [ok |-> TRUE, n |-> SkipSlowMinRequests + 1, rt |-> SkipResponseMs + 1]}

StartTime == SkipResponseMs + 1

Seeds ==
    {[m |-> NoMetrics, h |-> <<>>]}
    \cup {RunOf([m |-> FreshMetrics(0), h |-> <<>>], s.ok, s.n, s.rt, s.rt) : s \in SeedRuns}

\* recordProviderRequest up to its await: line 30-31
RecordBegin(id) ==
    /\ optOps < MaxOptOps
    /\ optReq = NoReq
    /\ metrics' = WithMetrics(metrics, id, now)
    /\ optReq' = [id |-> id, startTime |-> now, held |-> NoMetrics]
    /\ optOps' = optOps + 1
    /\ UNCHANGED <<now, history, optOrder, optPrio, skipRet, optRet, swept, nonOptVars>>

\* the awaited operation settles: it resolves (line 35-50), or it rejects
\* with an error that is thrown on (line 53-65)
RecordEnd(ok, error) ==
    /\ optReq # NoReq
    /\ optRet' = [id |-> optReq.id, ok |-> ok,
                  responseTime |-> now - optReq.startTime,
                  thrown |-> IF ok THEN NothingThrown
                             ELSE [original |-> error, raised |-> error]]
    /\ LET id == optReq.id
           r == IF optReq.held = NoMetrics
                THEN RecordOutcome(metrics[id], history[id], ok,
                                   now - optReq.startTime, now)
                ELSE RecordOutcomeHeld(optReq.held, WithMetrics(metrics, id, now)[id],
                                       history[id], ok, now - optReq.startTime, now)
       IN  /\ metrics' = [metrics EXCEPT ![id] = r.m]
           /\ history' = [history EXCEPT ![id] = r.h]
    /\ optReq' = NoReq
    /\ optOps' = optOps
    /\ UNCHANGED <<now, optOrder, optPrio, skipRet, swept, nonOptVars>>

OptimizeOrder ==
    /\ optOps < MaxOptOps
    /\ metrics' = WithAllMetrics(metrics, Providers, now)
    /\ optPrio' = DynamicPriorities(Providers, metrics', now)
    /\ optOrder' = OptimizeProviderOrder(Providers, metrics, now)
    /\ optOps' = optOps + 1
    /\ UNCHANGED <<now, history, optReq, skipRet, optRet, swept, nonOptVars>>

ShouldSkip(id) ==
    /\ optOps < MaxOptOps
    /\ metrics' = WithMetrics(metrics, id, now)
    /\ skipRet' = [id |-> id, ret |-> ShouldSkipProvider(metrics'[id]), m |-> metrics'[id]]
    /\ optOps' = optOps + 1
    /\ UNCHANGED <<now, history, optReq, optOrder, optPrio, optRet, swept, nonOptVars>>

OptTick(d) ==
    /\ optOps < MaxOptOps
    /\ now' = now + d
    /\ optOps' = optOps + 1
    /\ UNCHANGED <<metrics, history, optReq, optOrder, optPrio, skipRet, optRet,
                   swept, nonOptVars>>

\* the cleanupMetrics timer fires: line 209-225
CleanupMetrics ==
    /\ now - swept >= CleanupIntervalMs
    /\ metrics' = [id \in AllIds |->
                     IF metrics[id] = NoMetrics \/ SweepEvicts(metrics[id], now)
                     THEN NoMetrics
                     ELSE SweepDecay(metrics[id], now)]
    /\ history' = [id \in AllIds |->
                     IF metrics[id] # NoMetrics /\ SweepEvicts(metrics[id], now)
                     THEN <<>>
                     ELSE history[id]]
    /\ optReq' = IF /\ optReq # NoReq
                    /\ optReq.held = NoMetrics
                    /\ metrics[optReq.id] # NoMetrics
                    /\ SweepEvicts(metrics[optReq.id], now)
                 THEN [optReq EXCEPT !.held = SweepDecay(metrics[optReq.id], now)]
                 ELSE optReq
    /\ swept' = now
    /\ UNCHANGED <<now, optOrder, optPrio, skipRet, optRet, optOps, nonOptVars>>

\* the timer's periods in one behaviour: up to the first one at which a record
\* as old as the process is deleted
MaxSweeps == EvictAfterMs \div CleanupIntervalMs + 1

\* time passes up to the instant the timer is due, or to just before it; a
\* request in flight settles within FastResponseMs
SweepClock ==
    /\ swept + CleanupIntervalMs <= MaxSweeps * CleanupIntervalMs
    /\ \E t \in {swept + CleanupIntervalMs - (FastResponseMs - 1),
                  swept + CleanupIntervalMs} :
          /\ t > now
          /\ optReq # NoReq => t - optReq.startTime < FastResponseMs
          /\ now' = t
    /\ UNCHANGED <<optVars, nonOptVars>>

\* the provider whose requests run while the timer fires
SweepIds == {Providers[1]}

\* their records at the start: none, or those of 4 or 10 requests
SweepSeeds ==
    {seed \in Seeds :
        \/ seed.m = NoMetrics
        \/ seed.m.totalRequests \in {SkipMinRequests - 1, SkipConsecutiveFailures}}

OptVarsInit ==
    /\ metrics = [id \in AllIds |-> NoMetrics]
    /\ history = [id \in AllIds |-> <<>>]
    /\ optReq = NoReq
    /\ optOrder = <<>>
    /\ optPrio = <<>>
    /\ skipRet = [id |-> "none", ret |-> FALSE, m |-> NoMetrics]
    /\ optRet = NoRet
    /\ optOps = 0
    /\ swept = 0

NextOptimizer ==
    \/ \E id \in ProviderIds : RecordBegin(id)
    \/ \E ok \in BOOLEAN, error \in OperationErrors : RecordEnd(ok, error)
    \/ OptimizeOrder
    \/ \E id \in ProviderIds : ShouldSkip(id)
    \/ \E d \in ResponseTimes : OptTick(d)

-----------------------------------------------------------------------------
(* CryptoProviderRegistry and StockProviderRegistry *)

Domains == {"crypto", "stock"}

ProvidersOf(dom) == IF dom = "crypto" THEN CryptoRegistryProviders ELSE StockProviders

\* the providers' capabilities fields
Capabilities(id) ==
    CASE id = "binance" -> {"live", "snapshot"}
      [] id = "coingecko" -> {"snapshot", "history"}
      [] id = "coinpaprika" -> {"snapshot"}
      [] id = "cryptocompare" -> {"history", "snapshot"}
      [] id = "iex" -> {"live", "snapshot", "history"}
      [] id = "finnhub" -> {"live", "snapshot", "history"}
      [] id = "yahoo" -> {"snapshot"}

\* the stock providers' requiresKey fields
KeyIds == {"iex", "finnhub"}
RequiresKey(id) == id \in KeyIds

\* hasRequiredKey
HasRequiredKey(id, keys) == IF id \in KeyIds THEN keys[id] ELSE TRUE

\* the providers whose API key process.env may hold
EnvKeyIds == KeyIds \cup {"cryptocompare"}

\* CryptoCompareProvider.fetchSnapshot / fetchHistory, their first test:
\* !this.apiKey
ApiKeyMissing(id, keys) == id = "cryptocompare" /\ ~keys[id]

\* the tests that pass over a provider in both passes: line 697 / 1589, and
\* the stock registry's key test, line 1598-1604 / 1642-1647
PassedOver(dom, id, keys) ==
    \/ "snapshot" \notin Capabilities(id)
    \/ dom = "stock" /\ RequiresKey(id) /\ ~HasRequiredKey(id, keys)

\* how a provider's request ends: it throws at once or on a timeout, or it
\* returns an array of so many records
Outcomes ==
    {[kind |-> "throw", records |-> 0, d |-> FastResponseMs - 1],
     [kind |-> "throw", records |-> 0, d |-> SkipResponseMs + 1],
     [kind |-> "ok", records |-> 0, d |-> FastResponseMs - 1],
     [kind |-> "ok", records |-> 1, d |-> FastResponseMs - 1]}

\* a provider whose breaker does not count the failures of its requests
ProviderCall_FailureUncounted(b, outcome, t) ==
    IF CircuitRejects(b, t)
    THEN [b |-> b, kind |-> "throw", records |-> 0, invoked |-> FALSE, end |-> t]
    ELSE IF outcome.kind = "throw"
         THEN [b |-> ExecuteEnter(b, t), kind |-> "throw",
               records |-> 0, invoked |-> TRUE, end |-> t + outcome.d]
         ELSE [b |-> OnSuccess(ExecuteEnter(b, t)), kind |-> "ok",
               records |-> outcome.records, invoked |-> TRUE, end |-> t + outcome.d]

\* provider.fetchSnapshot: the request wrapped in the provider's breaker
ProviderCall(b, outcome, t) ==
    IF CircuitRejects(b, t)
    THEN [b |-> b, kind |-> "throw", records |-> 0, invoked |-> FALSE, end |-> t]
    ELSE IF outcome.kind = "throw"
         THEN [b |-> OnFailure(ExecuteEnter(b, t), t + outcome.d), kind |-> "throw",
               records |-> 0, invoked |-> TRUE, end |-> t + outcome.d]
         ELSE [b |-> OnSuccess(ExecuteEnter(b, t)), kind |-> "ok",
               records |-> outcome.records, invoked |-> TRUE, end |-> t + outcome.d]

\* CryptoCompareProvider.fetchSnapshot without its key: it throws before it
\* reaches its breaker
KeyError(b, t) ==
    [b |-> b, kind |-> "throw", records |-> 0, invoked |-> FALSE, end |-> t]

\* provider.fetchSnapshot / fetchHistory of a provider whose key is or is not
\* missing
ProviderFetch(nokey, b, outcome, t) ==
    IF nokey THEN KeyError(b, t) ELSE ProviderCall(b, outcome, t)

\* a first pass that records an empty array as a failed request
RecordedCall_EmptyFails(r, outcome, t) ==
    LET call == ProviderFetch(r.nokey, r.b, outcome, t)
        rec == RecordOutcome(r.m, r.h, call.kind = "ok" /\ call.records > 0,
                             call.end - t, call.end)
    IN  [m |-> rec.m, h |-> rec.h, b |-> call.b, kind |-> call.kind,
         records |-> call.records, invoked |-> call.invoked, end |-> call.end]

\* the first pass's call, line 714-717: recordProviderRequest around fetchSnapshot
RecordedCall(r, outcome, t) ==
    LET call == ProviderFetch(r.nokey, r.b, outcome, t)
        rec == RecordOutcome(r.m, r.h, call.kind = "ok", call.end - t, call.end)
    IN  [m |-> rec.m, h |-> rec.h, b |-> call.b, kind |-> call.kind,
         records |-> call.records, invoked |-> call.invoked, end |-> call.end]

\* line 719 / 742 with any array, even an empty one, ending the walk
ReturnsData_AnyArray(records) == records >= 0

\* line 719 / 742: data.length > 0
ReturnsData(records) == records > 0

\* a second pass that keeps the optimizer's veto
FallbackSkips_Veto(m) == m # NoMetrics /\ ShouldSkipProvider(m)

\* line 731-749 / 1632-1658: the second pass never asks shouldSkipProvider
FallbackSkips(m) == FALSE

\* a stock registry that throws as the crypto registry does
TotalFailure_AlwaysThrows(dom) == [kind |-> "throw", source |-> "none", records |-> 0]

\* line 752 (crypto) and line 1663 (stock)
TotalFailure(dom) ==
    IF dom = "crypto"
    THEN [kind |-> "throw", source |-> "none", records |-> 0]
    ELSE [kind |-> "return", source |-> "none", records |-> 0]

NoResult == [kind |-> "none", source |-> "none", records |-> 0]
IdleWalk ==
    [pc |-> "idle", op |-> "none", order |-> <<>>, idx |-> 0, attempted |-> 0,
     calls |-> <<>>, result |-> NoResult]

\* fetchSnapshot invocations in one behaviour
MaxWalks == 1

\* a provider's records after n requests made at time t that failed at once
RECURSIVE FailedRun(_, _, _)
FailedRun(r, n, t) ==
    IF n = 0 THEN r
    ELSE LET c == RecordedCall(r, [kind |-> "throw", records |-> 0, d |-> 0], t)
         IN  FailedRun([m |-> c.m, h |-> c.h, b |-> c.b, nokey |-> r.nokey], n - 1, t)

SeedOf(r) == [m |-> r.m, h |-> r.h, b |-> r.b]

\* the providers' states a walk may find: never called; 5 failed calls in a
\* row just now (breaker OPEN); 10 of them (vetoed, breaker OPEN); 11 slow
\* successes (vetoed, breaker CLOSED)
RegistrySeeds ==
    {[m |-> NoMetrics, h |-> <<>>, b |-> NewBreaker],
     SeedOf(FailedRun([m |-> FreshMetrics(StartTime), h |-> <<>>, b |-> NewBreaker,
                       nokey |-> FALSE], failureThreshold, StartTime)),
     SeedOf(FailedRun([m |-> FreshMetrics(StartTime), h |-> <<>>, b |-> NewBreaker,
                       nokey |-> FALSE], SkipConsecutiveFailures, StartTime)),
     [b |-> NewBreaker]
        @@ RunOf([m |-> FreshMetrics(0), h |-> <<>>], TRUE, SkipSlowMinRequests + 1,
                 SkipResponseMs + 1, StartTime)}

\* the states of a provider called without its key: never called; 5 or 10
\* calls in a row that threw before the breaker
KeylessSeeds ==
    {[m |-> NoMetrics, h |-> <<>>, b |-> NewBreaker],
     SeedOf(FailedRun([m |-> FreshMetrics(StartTime), h |-> <<>>, b |-> NewBreaker,
                       nokey |-> TRUE], failureThreshold, StartTime)),
     SeedOf(FailedRun([m |-> FreshMetrics(StartTime), h |-> <<>>, b |-> NewBreaker,
                       nokey |-> TRUE], SkipConsecutiveFailures, StartTime))}

\* the states a walk may find a provider in: one the registry passes over
\* has never been called
SeedsOf(dom, id, keys) ==
    IF PassedOver(dom, id, keys)
    THEN {[m |-> NoMetrics, h |-> <<>>, b |-> NewBreaker]}
    ELSE IF ApiKeyMissing(id, keys) THEN KeylessSeeds ELSE RegistrySeeds

\* a first pass that sorts the providers again at every step
NextProvider_Resorted(w, list, ms, t) == OptimizeProviderOrder(list, ms, t)[w.idx]

\* first pass, line 696: the loop runs over the array sorted at entry
NextProvider(w, list, ms, t) == w.order[w.idx]

\* fetchSnapshot, line 691-693: the order is computed once, at entry
WalkStart ==
    /\ walk.pc = "idle"
    /\ walks < MaxWalks
    /\ metrics' = WithAllMetrics(metrics, ProvidersOf(domain), now)
    /\ walk' = [IdleWalk EXCEPT
                  !.pc = "first",
                  !.op = "snapshot",
                  !.order = OptimizeProviderOrder(ProvidersOf(domain), metrics, now),
                  !.idx = 1]
    /\ walks' = walks + 1
    /\ UNCHANGED <<now, history, domain, hasKey, breakers, nonRegVars>>

\* first pass, line 697-709: the provider is passed over or vetoed
FirstPassSkip ==
    /\ walk.pc = "first"
    /\ walk.idx <= Len(walk.order)
    /\ LET id == NextProvider(walk, ProvidersOf(domain), metrics, now)
       IN  \/ PassedOver(domain, id, hasKey)
           \/ ShouldSkipProvider(metrics[id])
    /\ walk' = [walk EXCEPT !.idx = @ + 1]
    /\ UNCHANGED <<now, metrics, history, domain, hasKey, breakers, walks, nonRegVars>>

\* first pass, line 711-725: the provider is called
FirstPassCall(outcome) ==
    /\ walk.pc = "first"
    /\ walk.idx <= Len(walk.order)
    /\ LET id == NextProvider(walk, ProvidersOf(domain), metrics, now)
           c == RecordedCall([m |-> metrics[id], h |-> history[id], b |-> breakers[id],
                              nokey |-> ApiKeyMissing(id, hasKey)], outcome, now)
           entry == [id |-> id, pass |-> "first", kind |-> c.kind,
                     records |-> c.records, invoked |-> c.invoked]
       IN  /\ ~PassedOver(domain, id, hasKey)
           /\ ~ShouldSkipProvider(metrics[id])
           /\ metrics' = [metrics EXCEPT ![id] = c.m]
           /\ history' = [history EXCEPT ![id] = c.h]
           /\ breakers' = [breakers EXCEPT ![id] = c.b]
           /\ now' = c.end
           /\ walk' = IF c.kind = "ok" /\ ReturnsData(c.records)
                      THEN [walk EXCEPT
                              !.pc = "done",
                              !.attempted = @ + 1,
                              !.calls = Append(@, entry),
                              !.result = [kind |-> "return", source |-> id,
                                          records |-> c.records]]
                      ELSE [walk EXCEPT
                              !.idx = @ + 1,
                              !.attempted = @ + 1,
                              !.calls = Append(@, entry)]
    /\ UNCHANGED <<domain, hasKey, walks, nonRegVars>>

\* line 729: after the first pass
FirstPassEnd ==
    /\ walk.pc = "first"
    /\ walk.idx > Len(walk.order)
    /\ walk' = IF walk.attempted = 0
               THEN [walk EXCEPT !.pc = "fallback", !.idx = 1]
               ELSE [walk EXCEPT !.pc = "done", !.result = TotalFailure(domain)]
    /\ UNCHANGED <<now, metrics, history, domain, hasKey, breakers, walks, nonRegVars>>

\* second pass, line 732-738 / 1633-1647: the provider is passed over
FallbackSkip ==
    /\ walk.pc = "fallback"
    /\ walk.idx <= Len(ProvidersOf(domain))
    /\ LET id == ProvidersOf(domain)[walk.idx]
       IN  \/ PassedOver(domain, id, hasKey)
           \/ FallbackSkips(metrics[id])
    /\ walk' = [walk EXCEPT !.idx = @ + 1]
    /\ UNCHANGED <<now, metrics, history, domain, hasKey, breakers, walks, nonRegVars>>

\* second pass, line 740-748 / 1649-1657: fetchSnapshot is called directly
FallbackCall(outcome) ==
    /\ walk.pc = "fallback"
    /\ walk.idx <= Len(ProvidersOf(domain))
    /\ LET id == ProvidersOf(domain)[walk.idx]
           c == ProviderFetch(ApiKeyMissing(id, hasKey), breakers[id], outcome, now)
           entry == [id |-> id, pass |-> "fallback", kind |-> c.kind,
                     records |-> c.records, invoked |-> c.invoked]
       IN  /\ ~PassedOver(domain, id, hasKey)
           /\ ~FallbackSkips(metrics[id])
           /\ breakers' = [breakers EXCEPT ![id] = c.b]
           /\ now' = c.end
           /\ walk' = IF c.kind = "ok" /\ ReturnsData(c.records)
                      THEN [walk EXCEPT
                              !.pc = "done",
                              !.calls = Append(@, entry),
                              !.result = [kind |-> "return", source |-> id,
                                          records |-> c.records]]
                      ELSE [walk EXCEPT !.idx = @ + 1, !.calls = Append(@, entry)]
    /\ UNCHANGED <<metrics, history, domain, hasKey, walks, nonRegVars>>

\* line 752 / 1661-1663: every provider of the second pass failed too
FallbackEnd ==
    /\ walk.pc = "fallback"
    /\ walk.idx > Len(ProvidersOf(domain))
    /\ walk' = [walk EXCEPT !.pc = "done", !.result = TotalFailure(domain)]
    /\ UNCHANGED <<now, metrics, history, domain, hasKey, breakers, walks, nonRegVars>>

\* the caller has the result
WalkReturn ==
    /\ walk.pc = "done"
    /\ walk' = IdleWalk
    /\ UNCHANGED <<now, metrics, history, domain, hasKey, breakers, walks, nonRegVars>>

\* a fetchHistory that throws when every provider has failed
HistoryFailure_Throws == [kind |-> "throw", source |-> "none", records |-> 0]

\* line 770 / 1683: return []
HistoryFailure == [kind |-> "return", source |-> "none", records |-> 0]

\* line 757 / 1668-1670: the providers fetchHistory passes over
HistoryPassedOver(dom, id, keys) ==
    \/ "history" \notin Capabilities(id)
    \/ dom = "stock" /\ RequiresKey(id) /\ ~HasRequiredKey(id, keys)

\* fetchHistory entered
HistoryStart ==
    /\ walk.pc = "idle"
    /\ walks < MaxWalks
    /\ walk' = [IdleWalk EXCEPT !.pc = "history", !.op = "history", !.idx = 1]
    /\ walks' = walks + 1
    /\ UNCHANGED <<now, metrics, history, domain, hasKey, breakers, nonRegVars>>

\* fetchHistory, line 757 / 1668-1670: continue
HistorySkip ==
    /\ walk.pc = "history"
    /\ walk.idx <= Len(ProvidersOf(domain))
    /\ HistoryPassedOver(domain, ProvidersOf(domain)[walk.idx], hasKey)
    /\ walk' = [walk EXCEPT !.idx = @ + 1]
    /\ UNCHANGED <<now, metrics, history, domain, hasKey, breakers, walks, nonRegVars>>

\* fetchHistory, line 759-767 / 1672-1680: the provider's fetchHistory is called
HistoryCall(outcome) ==
    /\ walk.pc = "history"
    /\ walk.idx <= Len(ProvidersOf(domain))
    /\ LET id == ProvidersOf(domain)[walk.idx]
           c == ProviderFetch(ApiKeyMissing(id, hasKey), breakers[id], outcome, now)
           entry == [id |-> id, pass |-> "history", kind |-> c.kind,
                     records |-> c.records, invoked |-> c.invoked]
       IN  /\ ~HistoryPassedOver(domain, id, hasKey)
           /\ breakers' = [breakers EXCEPT ![id] = c.b]
           /\ now' = c.end
           /\ walk' = IF c.kind = "ok" /\ ReturnsData(c.records)
                      THEN [walk EXCEPT
                              !.pc = "done",
                              !.calls = Append(@, entry),
                              !.result = [kind |-> "return", source |-> id,
                                          records |-> c.records]]
                      ELSE [walk EXCEPT !.idx = @ + 1, !.calls = Append(@, entry)]
    /\ UNCHANGED <<metrics, history, domain, hasKey, walks, nonRegVars>>

\* fetchHistory, line 770 / 1683: no provider had a series
HistoryEnd ==
    /\ walk.pc = "history"
    /\ walk.idx > Len(ProvidersOf(domain))
    /\ walk' = [walk EXCEPT !.pc = "done", !.result = HistoryFailure]
    /\ UNCHANGED <<now, metrics, history, domain, hasKey, breakers, walks, nonRegVars>>

\* the calls other invocations make in one behaviour
MaxOverlaps == 1

\* another fetchSnapshot invocation, in its first pass, calls a provider it
\* finds not vetoed, line 705-717: a call that the provider's key test or
\* its breaker rejects is over at once, any other is left awaiting its request
OverlapBegin(id) ==
    /\ walk.pc = "first"
    /\ optOps < MaxOverlaps
    /\ optReq = NoReq
    /\ ~PassedOver(domain, id, hasKey)
    /\ ~ShouldSkipProvider(metrics[id])
    /\ IF ApiKeyMissing(id, hasKey) \/ CircuitRejects(breakers[id], now)
       THEN LET c == RecordedCall([m |-> metrics[id], h |-> history[id],
                                   b |-> breakers[id],
                                   nokey |-> ApiKeyMissing(id, hasKey)],
                                  [kind |-> "throw", records |-> 0, d |-> 0], now)
            IN  /\ metrics' = [metrics EXCEPT ![id] = c.m]
                /\ history' = [history EXCEPT ![id] = c.h]
                /\ UNCHANGED <<breakers, optReq>>
       ELSE /\ breakers' = [breakers EXCEPT ![id] = ExecuteEnter(@, now)]
            /\ optReq' = [id |-> id, startTime |-> now, held |-> NoMetrics]
            /\ UNCHANGED <<metrics, history>>
    /\ optOps' = optOps + 1
    /\ UNCHANGED <<now, domain, hasKey, walk, walks, breakerVars, cacheVars, optOrder,
                   optPrio, skipRet, optRet, swept, workerVars, serviceVars, normVars>>

\* the request of that call settles: the breaker's onSuccess / onFailure and
\* then recordProviderRequest's own bookkeeping, providerOptimizer.ts line 35-65
OverlapEnd(outcome) ==
    /\ optReq # NoReq
    /\ LET id == optReq.id
           end == IF now < optReq.startTime + outcome.d
                  THEN optReq.startTime + outcome.d
                  ELSE now
           ok == outcome.kind = "ok"
           rec == RecordOutcome(metrics[id], history[id], ok, end - optReq.startTime, end)
       IN  /\ breakers' = [breakers EXCEPT
                             ![id] = IF ok THEN OnSuccess(@) ELSE OnFailure(@, end)]
           /\ metrics' = [metrics EXCEPT ![id] = rec.m]
           /\ history' = [history EXCEPT ![id] = rec.h]
           /\ now' = end
    /\ optReq' = NoReq
    /\ UNCHANGED <<domain, hasKey, walk, walks, breakerVars, cacheVars, optOrder,
                   optPrio, skipRet, optRet, optOps, swept, workerVars, serviceVars,
                   normVars>>

\* a provider after n slow successes
SlowSeed(n) ==
    [b |-> NewBreaker]
       @@ RunOf([m |-> FreshMetrics(0), h |-> <<>>], TRUE, n, SkipResponseMs + 1,
                StartTime)

\* the providers' states the invocations may find: never called; ten slow
\* successes, one short of the veto on slow providers; eleven, vetoed
OverlapSeeds ==
    {[m |-> NoMetrics, h |-> <<>>, b |-> NewBreaker],
     SlowSeed(SkipSlowMinRequests),
     SlowSeed(SkipSlowMinRequests + 1)}

RegVarsInit ==
    /\ domain = "crypto"
    /\ hasKey = [id \in EnvKeyIds |-> FALSE]
    /\ breakers = [id \in AllIds |-> NewBreaker]
    /\ walk = IdleWalk
    /\ walks = 0

NextRegistry ==
    \/ WalkStart
    \/ FirstPassSkip
    \/ \E outcome \in Outcomes : FirstPassCall(outcome)
    \/ FirstPassEnd
    \/ FallbackSkip
    \/ \E outcome \in Outcomes : FallbackCall(outcome)
    \/ FallbackEnd
    \/ HistoryStart
    \/ HistorySkip
    \/ \E outcome \in Outcomes : HistoryCall(outcome)
    \/ HistoryEnd
    \/ WalkReturn

-----------------------------------------------------------------------------
(* MarketDataWorker *)

\* the constructor's defaults
cryptoInterval == 5000
stockInterval == 10000
retryAttempts == 3
retryBackoffMs == 1000

IntervalOf(kind) == IF kind = "crypto" THEN cryptoInterval ELSE stockInterval
TtlOf(kind) == IF kind = "crypto" THEN CRYPTO_SNAPSHOT ELSE STOCK_SNAPSHOT

\* the two cache keys of fetchWithRetry, as keys of the cache
CacheKey(kind) == IF kind = "crypto" THEN 1 ELSE 2

\* fetchWithRetry invocations in flight at a time: those start() begins,
\* one per domain, and one that an interval begins
MaxWorkerTicks == Cardinality(Domains) + 1
\* updateCallbacks registered in one behaviour
MaxCallbacks == 2
\* start() calls that start the worker in one behaviour
MaxStarts == 1
\* the clock stops after one interval of the faster domain
MaxWorkerNow == cryptoInterval

NoTimer == 0
NoRecords == 0

\* records of a snapshot: one per symbol asked for
SnapshotSize == 2

\* what a registry's fetchSnapshot can hand the worker: records of some
\* provider, or the registry's total failure
RegistryResults(kind) ==
    {[kind |-> "return", source |-> "provider", records |-> SnapshotSize],
     TotalFailure(kind)}

\* a backoff that does not grow
Backoff_Constant(attempt) == retryBackoffMs

\* line 1893: retryBackoffMs * Math.pow(2, attempt - 1)
Backoff(attempt) == retryBackoffMs * 2 ^ (attempt - 1)

\* fetchWithRetry(kind, symbols) entered with attempt = 1, its call in flight
NewTick(kind) ==
    [kind |-> kind, pc |-> "call", attempt |-> 1, wakeAt |-> -1, data |-> 0,
     events |-> <<>>]

NoTick == [kind |-> "none", pc |-> "none", attempt |-> 0, wakeAt |-> -1, data |-> 0,
           events |-> <<>>]

\* the sequence without its i-th element
Without(seq, i) == SubSeq(seq, 1, i - 1) \o SubSeq(seq, i + 1, Len(seq))

\* a catch block that retries once more than retryAttempts allows
Caught_OneMore(tick, events, t) ==
    IF tick.attempt <= retryAttempts
    THEN [tick EXCEPT
            !.pc = "sleep",
            !.wakeAt = t + Backoff(tick.attempt),
            !.events = (@ \o events)
                         \o <<[op |-> "sleep", arg |-> Backoff(tick.attempt)]>>]
    ELSE [tick EXCEPT !.pc = "done", !.events = @ \o events]

\* fetchWithRetry's catch block, line 1888-1901, entered at time t after the
\* events given: the retry is scheduled, or the invocation gives up
Caught(tick, events, t) ==
    IF tick.attempt < retryAttempts
    THEN [tick EXCEPT
            !.pc = "sleep",
            !.wakeAt = t + Backoff(tick.attempt),
            !.events = (@ \o events)
                         \o <<[op |-> "sleep", arg |-> Backoff(tick.attempt)]>>]
    ELSE [tick EXCEPT !.pc = "done", !.events = @ \o events]

\* a saveToDatabase without its try/catch
SavePropagates_NoCatch(stored) == ~stored

\* saveToDatabase, line 1908-1923: its catch block swallows the store's error
SavePropagates(stored) == FALSE

RECURSIVE InvokedUntilThrow(_, _, _)
InvokedUntilThrow(j, n, throwers) ==
    IF j > n THEN <<>>
    ELSE IF j \in throwers THEN <<j>>
    ELSE <<j>> \o InvokedUntilThrow(j + 1, n, throwers)

\* a notifyUpdateCallbacks without its try/catch: the first callback that
\* throws ends the forEach and the error goes up
NotifyUpdateCallbacks_NoCatch(n, throwers) ==
    [invoked |-> InvokedUntilThrow(1, n, throwers),
     propagated |-> throwers \cap 1 .. n # {}]

\* notifyUpdateCallbacks, line 1929-1937: forEach over the n callbacks, each
\* in its own try/catch
NotifyUpdateCallbacks(n, throwers) ==
    [invoked |-> [j \in 1 .. n |-> j], propagated |-> FALSE]

\* onUpdate
OnUpdate ==
    /\ callbacks < MaxCallbacks
    /\ callbacks' = callbacks + 1
    /\ UNCHANGED <<now, isRunning, intervalId, timers, nextTimerId, ticks, db,
                   lastDone, cacheVars, nonWorkerVars>>

\* a start() that does not look at isRunning
WorkerStart_NoGuard ==
    /\ Len(ticks) + 2 <= MaxWorkerTicks
    /\ isRunning' = TRUE
    /\ ticks' = ticks \o <<NewTick("crypto"), NewTick("stock")>>
    /\ timers' = timers \cup
          {[id |-> nextTimerId, kind |-> "crypto", due |-> now + cryptoInterval],
           [id |-> nextTimerId + 1, kind |-> "stock", due |-> now + stockInterval]}
    /\ intervalId' = [crypto |-> nextTimerId, stock |-> nextTimerId + 1]
    /\ nextTimerId' = nextTimerId + 2
    /\ UNCHANGED <<now, callbacks, db, lastDone, cacheVars, nonWorkerVars>>

\* start
WorkerStart ==
    /\ isRunning \/ (Len(ticks) + 2 <= MaxWorkerTicks /\ nextTimerId + 1 <= 2 * MaxStarts)
    /\ IF isRunning
       THEN UNCHANGED <<isRunning, intervalId, timers, nextTimerId, ticks>>
       ELSE /\ isRunning' = TRUE
            /\ ticks' = ticks \o <<NewTick("crypto"), NewTick("stock")>>
            /\ timers' = timers \cup
                  {[id |-> nextTimerId, kind |-> "crypto", due |-> now + cryptoInterval],
                   [id |-> nextTimerId + 1, kind |-> "stock", due |-> now + stockInterval]}
            /\ intervalId' = [crypto |-> nextTimerId, stock |-> nextTimerId + 1]
            /\ nextTimerId' = nextTimerId + 2
    /\ UNCHANGED <<now, callbacks, db, lastDone, cacheVars, nonWorkerVars>>

\* a stop() that clears the crypto interval only
WorkerStop_CryptoOnly ==
    /\ IF ~isRunning
       THEN UNCHANGED <<isRunning, intervalId, timers>>
       ELSE /\ timers' = {tm \in timers : tm.id # intervalId.crypto}
            /\ intervalId' = [intervalId EXCEPT !.crypto = NoTimer]
            /\ isRunning' = FALSE
    /\ UNCHANGED <<now, nextTimerId, callbacks, ticks, db, lastDone,
                   cacheVars, nonWorkerVars>>

\* stop
WorkerStop ==
    /\ IF ~isRunning
       THEN UNCHANGED <<isRunning, intervalId, timers>>
       ELSE /\ timers' = {tm \in timers :
                            tm.id \notin {intervalId.crypto, intervalId.stock}}
            /\ intervalId' = [crypto |-> NoTimer, stock |-> NoTimer]
            /\ isRunning' = FALSE
    /\ UNCHANGED <<now, nextTimerId, callbacks, ticks, db, lastDone,
                   cacheVars, nonWorkerVars>>

\* a setInterval callback, line 1797-1803: fetchCryptoData / fetchStockData
IntervalFire(tm) ==
    /\ tm \in timers
    /\ tm.due <= now
    /\ Len(ticks) < MaxWorkerTicks
    /\ ticks' = Append(ticks, NewTick(tm.kind))
    /\ timers' = (timers \ {tm}) \cup {[tm EXCEPT !.due = @ + IntervalOf(tm.kind)]}
    /\ UNCHANGED <<now, isRunning, intervalId, nextTimerId, callbacks, db, lastDone,
                   cacheVars, nonWorkerVars>>

\* fetchWithRetry, line 1862-1875: the registry's call returns, the cache is
\* written and saveToDatabase begins (the history variables of the cache's
\* own specification are not kept here)
TickCallReturns(i, result) ==
    /\ i \in 1 .. Len(ticks)
    /\ ticks[i].pc = "call"
    /\ result \in RegistryResults(ticks[i].kind)
    /\ result.kind = "return"
    /\ cache' = CacheSet(cache, CacheKey(ticks[i].kind),
                         IF result.records > 0 THEN ticks[i].kind ELSE "empty",
                         TtlOf(ticks[i].kind), now)
    /\ UNCHANGED <<lastOp, opClock, lastTouch, lastSet>>
    /\ ticks' = [ticks EXCEPT
                   ![i].pc = "save",
                   ![i].data = result.records,
                   ![i].events = @ \o <<[op |-> "call", arg |-> 1],
                                        [op |-> "set", arg |-> result.records]>>]
    /\ UNCHANGED <<now, isRunning, intervalId, timers, nextTimerId, callbacks, db,
                   lastDone, nonWorkerVars>>

\* fetchWithRetry, line 1888-1901: the registry's call throws, and the retry
\* is scheduled or given up
TickCallThrows(i, result) ==
    /\ i \in 1 .. Len(ticks)
    /\ ticks[i].pc = "call"
    /\ result \in RegistryResults(ticks[i].kind)
    /\ result.kind = "throw"
    /\ LET next == Caught(ticks[i], <<[op |-> "call", arg |-> 0]>>, now)
       IN  IF next.pc = "done"
           THEN ticks' = Without(ticks, i) /\ lastDone' = next
           ELSE ticks' = [ticks EXCEPT ![i] = next] /\ UNCHANGED lastDone
    /\ UNCHANGED <<now, isRunning, intervalId, timers, nextTimerId, callbacks, db,
                   cacheVars, nonWorkerVars>>

\* line 1896-1897: the timeout has run out, fetchWithRetry(kind, symbols, attempt + 1)
TickWake(i) ==
    /\ i \in 1 .. Len(ticks)
    /\ ticks[i].pc = "sleep"
    /\ ticks[i].wakeAt <= now
    /\ ticks' = [ticks EXCEPT ![i].pc = "call", ![i].attempt = @ + 1, ![i].wakeAt = -1]
    /\ UNCHANGED <<now, isRunning, intervalId, timers, nextTimerId, callbacks, db,
                   lastDone, cacheVars, nonWorkerVars>>

\* saveToDatabase, line 1908-1923: the records whose save is begun; an
\* error at the first record leaves the loop
SaveAttempts(stored, records) ==
    IF stored THEN records ELSE IF records > 0 THEN 1 ELSE 0

\* line 1878-1881: saveToDatabase settles, with the records stored or the
\* error of the first save swallowed, and notifyUpdateCallbacks calls the
\* callbacks, those of throwers throwing
TickSaved(i, stored, throwers) ==
    /\ i \in 1 .. Len(ticks)
    /\ ticks[i].pc = "save"
    /\ stored \/ ticks[i].data > 0
    /\ throwers \subseteq 1 .. callbacks
    /\ db' = IF stored /\ ticks[i].data > 0
             THEN [db EXCEPT ![ticks[i].kind] = ticks[i].data]
             ELSE db
    /\ LET saved == [op |-> "save", arg |-> IF stored THEN 1 ELSE 0,
                     attempted |-> SaveAttempts(stored, ticks[i].data)]
           notify == NotifyUpdateCallbacks(callbacks, throwers)
           notified == [op |-> "notify",
                        arg |-> [registered |-> callbacks, invoked |-> notify.invoked,
                                 threw |-> throwers, records |-> ticks[i].data,
                                 kind |-> ticks[i].kind]]
           next == IF SavePropagates(stored)
                   THEN Caught(ticks[i], <<saved>>, now)
                   ELSE IF notify.propagated
                        THEN Caught(ticks[i], <<saved, notified>>, now)
                        ELSE [ticks[i] EXCEPT
                                !.pc = "done", !.events = @ \o <<saved, notified>>]
       IN  IF next.pc = "done"
           THEN ticks' = Without(ticks, i) /\ lastDone' = next
           ELSE ticks' = [ticks EXCEPT ![i] = next] /\ UNCHANGED lastDone
    /\ UNCHANGED <<now, isRunning, intervalId, timers, nextTimerId, callbacks,
                   cacheVars, nonWorkerVars>>

\* the timeouts and intervals not yet run out
Deadlines ==
    {tm.due : tm \in timers}
      \cup {ticks[i].wakeAt : i \in {j \in 1 .. Len(ticks) : ticks[j].pc = "sleep"}}

\* time passes until the next timer runs out
WorkerClock ==
    /\ Deadlines # {}
    /\ \A d \in Deadlines : d > now
    /\ \E d \in Deadlines :
          /\ \A e \in Deadlines : d <= e
          /\ d <= MaxWorkerNow
          /\ now' = d
    /\ UNCHANGED <<workerVars, cacheVars, nonWorkerVars>>

WorkerVarsInit ==
    /\ isRunning = FALSE
    /\ intervalId = [crypto |-> NoTimer, stock |-> NoTimer]
    /\ timers = {}
    /\ nextTimerId = 1
    /\ callbacks = 0
    /\ ticks = <<>>
    /\ db = [kind \in Domains |-> NoRecords]
    /\ lastDone = NoTick

NextTicks ==
    \/ \E tm \in timers : IntervalFire(tm)
    \/ \E i \in 1 .. MaxWorkerTicks :
          \E kind \in Domains : \E result \in RegistryResults(kind) : TickCallReturns(i, result)
    \/ \E i \in 1 .. MaxWorkerTicks :
          \E kind \in Domains : \E result \in RegistryResults(kind) : TickCallThrows(i, result)
    \/ \E i \in 1 .. MaxWorkerTicks : TickWake(i)
    \/ \E i \in 1 .. MaxWorkerTicks, stored \in BOOLEAN :
          \E throwers \in SUBSET (1 .. MaxCallbacks) : TickSaved(i, stored, throwers)
    \/ WorkerClock

NextWorker == OnUpdate \/ WorkerStart \/ NextTicks

NextLifecycle == WorkerStart \/ WorkerStop \/ NextTicks

-----------------------------------------------------------------------------
(* MarketService *)

\* getMarketSnapshot calls in one behaviour
MaxReads == 2

\* the number of records an array in the cache holds
RecordsOf(value) == IF value = "empty" THEN NoRecords ELSE SnapshotSize

IdleRead ==
    [pc |-> "idle", kind |-> "none", ret |-> NoRecords, source |-> "none",
     registryCalls |-> 0, cacheWrites |-> 0, storeReads |-> 0,
     failed |-> FALSE, stored |-> NoRecords, threw |-> FALSE]

\* getMarketSnapshot, line 18-24: the cache is asked first; any array found
\* there is returned, otherwise the registry of the domain is called
ReadBegin(kind) ==
    /\ read.pc \in {"idle", "done"}
    /\ reads < MaxReads
    /\ reads' = reads + 1
    /\ LET r == CacheGet(cache, CacheKey(kind), now)
       IN  /\ cache' = r.cache
           /\ read' = IF r.ret # Undefined
                      THEN [IdleRead EXCEPT !.pc = "done", !.kind = kind,
                                            !.ret = RecordsOf(r.ret),
                                            !.source = "cache"]
                      ELSE [IdleRead EXCEPT !.pc = "registry", !.kind = kind,
                                            !.registryCalls = 1]
    /\ UNCHANGED <<now, db, nonServiceVars>>

\* line 29-40 and 62: the registry's call returns, its array is cached, saved
\* as far as the store takes it, and returned
ReadRegistryReturns(result, saved) ==
    /\ read.pc = "registry"
    /\ result \in RegistryResults(read.kind)
    /\ result.kind = "return"
    /\ cache' = CacheSet(cache, CacheKey(read.kind),
                         IF result.records > 0 THEN read.kind ELSE "empty",
                         TtlOf(read.kind), now)
    /\ db' = IF saved /\ result.records > 0
             THEN [db EXCEPT ![read.kind] = result.records]
             ELSE db
    /\ read' = [read EXCEPT !.pc = "done",
                            !.ret = result.records,
                            !.source = "registry",
                            !.cacheWrites = @ + 1,
                            !.failed = result = TotalFailure(read.kind),
                            !.stored = db[read.kind]]
    /\ UNCHANGED <<now, reads, nonServiceVars>>

\* line 42-62: the registry's call throws, and the records of the store are
\* returned if it has any, the empty array otherwise
ReadRegistryThrows(result) ==
    /\ read.pc = "registry"
    /\ result \in RegistryResults(read.kind)
    /\ result.kind = "throw"
    /\ read' = [read EXCEPT !.pc = "done",
                            !.ret = IF db[read.kind] > 0 THEN db[read.kind]
                                    ELSE NoRecords,
                            !.source = "store",
                            !.storeReads = @ + 1,
                            !.failed = result = TotalFailure(read.kind),
                            !.stored = db[read.kind]]
    /\ UNCHANGED <<now, cache, db, reads, nonServiceVars>>

\* time passes until an entry of the cache has expired
ServiceClock ==
    /\ reads < MaxReads
    /\ \E i \in 1 .. Len(cache) :
          /\ cache[i].expiry >= now
          /\ now' = cache[i].expiry + 1
    /\ UNCHANGED <<cacheVars, db, serviceVars, nonServiceVars>>

ServiceVarsInit ==
    /\ read = IdleRead
    /\ reads = 0

\* what a tick of the worker leaves in the cache for a domain
WorkerEntries(kind, t) ==
    {[key |-> CacheKey(kind),
      value |-> IF result.records > 0 THEN kind ELSE "empty",
      expiry |-> t + TtlOf(kind)] :
        result \in {r \in RegistryResults(kind) : r.kind = "return"}}

\* the caches the worker's ticks at time t = 0 leave behind
FilledCaches ==
    {<<>>}
      \cup {<<e>> : e \in UNION {WorkerEntries(kind, 0) : kind \in Domains}}
      \cup {<<e, f>> : e \in WorkerEntries("crypto", 0), f \in WorkerEntries("stock", 0)}
      \cup {<<f, e>> : e \in WorkerEntries("crypto", 0), f \in WorkerEntries("stock", 0)}

NextService ==
    \/ \E kind \in Domains : ReadBegin(kind)
    \/ \E kind \in Domains : \E result \in RegistryResults(kind) :
          \E saved \in BOOLEAN : ReadRegistryReturns(result, saved)
    \/ \E kind \in Domains : \E result \in RegistryResults(kind) :
          ReadRegistryThrows(result)
    \/ ServiceClock

-----------------------------------------------------------------------------
(* normalizeMarketData *)

\* JavaScript values: undefined, NaN, numbers, strings, arrays and objects
\* (an object is a function from its property names to values)
JsUndefined == [t |-> "undefined"]
NaN == [t |-> "NaN"]
Num(n) == [t |-> "number", v |-> n]
Str(s) == [t |-> "string", v |-> s]
Arr(seq) == [t |-> "array", v |-> seq]
Obj(props) == [t |-> "object", v |-> props]

NoProps == [name \in {} |-> JsUndefined]
EmptyRaw == Obj(NoProps)

\* x.name and x?.name where x is not undefined
Prop(x, name) ==
    IF x.t = "object" /\ name \in DOMAIN x.v THEN x.v[name] ELSE JsUndefined

\* x?.[i] on an array
Index(x, i) ==
    IF x.t = "array" /\ i + 1 <= Len(x.v) THEN x.v[i + 1] ELSE JsUndefined

\* the conversion to boolean that || and ?: apply
Truthy(x) ==
    CASE x.t \in {"undefined", "NaN"} -> FALSE
      [] x.t = "number" -> x.v # 0
      [] x.t = "string" -> x.v # ""
      [] OTHER -> TRUE

\* a || b
Or(a, b) == IF Truthy(a) THEN a ELSE b

\* the decimal numerals among the strings the providers send
Numerals == [s \in {"0", "2", "5", "100", "101"} |->
                CASE s = "0" -> 0 [] s = "2" -> 2 [] s = "5" -> 5
                  [] s = "100" -> 100 [] s = "101" -> 101]

\* parseFloat(x): a number stays, a numeral is read, the rest is NaN
ParseFloat(x) ==
    CASE x.t \in {"number", "NaN"} -> x
      [] x.t = "string" /\ x.v \in DOMAIN Numerals -> Num(Numerals[x.v])
      [] OTHER -> NaN

\* whether x?.toUpperCase() throws: x has no such method
UpperCaseThrows(x) == x.t \notin {"undefined", "string"}

\* String.prototype.toUpperCase on the tickers below
UpperCase(s) ==
    CASE s = "btc" -> "BTC"
      [] s = "eth" -> "ETH"
      [] OTHER -> s

\* x?.toUpperCase()
ToUpperCase(x) == IF x.t = "string" THEN Str(UpperCase(x.v)) ELSE JsUndefined

\* s.replace('USD', ''): the first occurrence of USD is removed
ReplaceUSD(s) ==
    CASE s = "XBTUSD" -> "XBT"
      [] s = "USDTUSD" -> "TUSD"
      [] OTHER -> s

\* pair?.replace('USD', '')
Replace(x) == IF x.t = "string" THEN Str(ReplaceUSD(x.v)) ELSE JsUndefined

\* Object.keys(x)[0], for objects of at most one property
FirstKey(x) ==
    IF x.t = "object" /\ DOMAIN x.v # {}
      THEN Str(CHOOSE name \in DOMAIN x.v : TRUE)
      ELSE JsUndefined

\* x ? x * 100 : undefined
Percent(x) == IF Truthy(x) /\ x.t = "number" THEN Num(x.v * 100) ELSE JsUndefined

SupportedSources == {"binance", "coingecko", "coinpaprika", "kraken", "iex", "finnhub"}
UnknownSource == "acme"
Sources == SupportedSources \cup {UnknownSource}

\* the record a branch of the switch builds
Unified(symbol, name, price, change24h, volume, marketCap, timestamp, source, kind) ==
    [symbol |-> symbol, name |-> name, price |-> price, change24h |-> change24h,
     volume |-> volume, marketCap |-> marketCap, timestamp |-> timestamp,
     source |-> source, kind |-> kind]

KrakenPair(rawData) == FirstKey(Or(Prop(rawData, "result"), EmptyRaw))

KrakenData(rawData) ==
    IF KrakenPair(rawData).t = "string"
      THEN Prop(Prop(rawData, "result"), KrakenPair(rawData).v)
      ELSE JsUndefined

\* whether the call throws a TypeError: a property of undefined is read, or
\* toUpperCase is called on a symbol that is no string
NormalizeThrows(rawData, source) ==
    \/ rawData.t = "undefined"
    \/ /\ source \in {"coingecko", "coinpaprika"}
       /\ UpperCaseThrows(Prop(rawData, "symbol"))

\* the record normalizeMarketData returns when it does not throw
NormalizeMarketData(rawData, source, kind, timestamp) ==
    CASE source = "binance" ->
           Unified(Prop(rawData, "symbol"),
                   Prop(rawData, "symbol"),
                   ParseFloat(Or(Prop(rawData, "price"), Prop(rawData, "c"))),
                   ParseFloat(Or(Prop(rawData, "priceChangePercent"), Prop(rawData, "P"))),
                   ParseFloat(Or(Prop(rawData, "volume"), Prop(rawData, "v"))),
                   JsUndefined, timestamp, source, kind)
      [] source = "coingecko" ->
           Unified(ToUpperCase(Prop(rawData, "symbol")),
                   Prop(rawData, "name"),
                   Prop(rawData, "current_price"),
                   Prop(rawData, "price_change_percentage_24h"),
                   Prop(rawData, "total_volume"),
                   Prop(rawData, "market_cap"),
                   timestamp, source, kind)
      [] source = "coinpaprika" ->
           LET usd == Prop(Prop(rawData, "quotes"), "USD")
           IN  Unified(ToUpperCase(Prop(rawData, "symbol")),
                       Prop(rawData, "name"),
                       Prop(usd, "price"),
                       Prop(usd, "percent_change_24h"),
                       Prop(usd, "volume_24h"),
                       Prop(usd, "market_cap"),
                       timestamp, source, kind)
      [] source = "kraken" ->
           LET pair == KrakenPair(rawData)
               data == KrakenData(rawData)
           IN  Unified(Replace(pair),
                       Replace(pair),
                       ParseFloat(Index(Prop(data, "c"), 0)),
                       JsUndefined,
                       ParseFloat(Index(Prop(data, "v"), 1)),
                       JsUndefined, timestamp, source, kind)
      [] source = "iex" ->
           Unified(Prop(rawData, "symbol"),
                   Or(Prop(rawData, "companyName"), Prop(rawData, "symbol")),
                   Prop(rawData, "latestPrice"),
                   Percent(Prop(rawData, "changePercent")),
                   Prop(rawData, "volume"),
                   Prop(rawData, "marketCap"),
                   timestamp, source, kind)
      [] source = "finnhub" ->
           Unified(Prop(rawData, "symbol"),
                   Prop(rawData, "symbol"),
                   Prop(rawData, "c"),
                   Prop(rawData, "dp"),
                   JsUndefined, JsUndefined, timestamp, source, kind)
      [] OTHER ->
           Unified(Or(Prop(rawData, "symbol"), Str("UNKNOWN")),
                   Or(Or(Prop(rawData, "name"), Prop(rawData, "symbol")), Str("Unknown")),
                   ParseFloat(Or(Or(Or(Prop(rawData, "price"), Prop(rawData, "last")),
                                    Prop(rawData, "close")), Num(0))),
                   ParseFloat(Or(Or(Prop(rawData, "change24h"),
                                    Prop(rawData, "changePercent")), Num(0))),
                   ParseFloat(Or(Prop(rawData, "volume"), Num(0))),
                   ParseFloat(Or(Prop(rawData, "marketCap"), Num(0))),
                   timestamp, source, kind)

\* one ticker of Kraken's result object
KrakenTicker ==
    Obj([name \in {"c", "v"} |->
           IF name = "c" THEN Arr(<<Str("100"), Str("1")>>)
                         ELSE Arr(<<Str("2"), Str("5")>>)])

\* Coinpaprika's quotes object
PaprikaQuotes ==
    Obj([name \in {"USD"} |->
           Obj([field \in {"price", "percent_change_24h", "volume_24h", "market_cap"} |->
                  CASE field = "price" -> Num(100)
                    [] field = "percent_change_24h" -> Num(2)
                    [] field = "volume_24h" -> Num(5)
                    [] field = "market_cap" -> Num(101)])])

\* the properties a raw response may carry, each with the values it may have
RawProps ==
    ({"symbol"} \X {Str("btc"), Str("BTC"), Str(""), Num(5)})
      \cup ({"name", "companyName"} \X {Str("Bitcoin")})
      \cup ({"price", "c", "volume"} \X {Str("100"), Str("n/a"), Num(101), Num(0)})
      \cup ({"priceChangePercent", "P", "v"} \X {Str("2")})
      \cup ({"current_price", "latestPrice", "last", "close"} \X {Num(100)})
      \cup ({"price_change_percentage_24h", "dp", "change24h"} \X {Num(2)})
      \cup ({"changePercent"} \X {Num(2), Num(0)})
      \cup ({"total_volume", "market_cap", "marketCap"} \X {Num(5)})
      \cup ({"quotes"} \X {EmptyRaw, PaprikaQuotes})
      \cup ({"result"} \X
              {EmptyRaw,
               Obj([name \in {"XBTUSD"} |-> KrakenTicker]),
               Obj([name \in {"USDTUSD"} |-> KrakenTicker])})

\* the raw responses: undefined, the empty object, and the objects of one or
\* two properties
RawObjects ==
    {JsUndefined, EmptyRaw}
      \cup {Obj([name \in {p[1]} |-> p[2]]) : p \in RawProps}
      \cup {Obj([name \in {p[1], q[1]} |-> IF name = p[1] THEN p[2] ELSE q[2]]) :
              p \in RawProps, q \in {r \in RawProps : r[1] # "symbol"}}

NoOutcome == [kind |-> "none"]

\* a call of normalizeMarketData before it runs
NormCall(rawData, source, kind) ==
    [pc |-> "called", rawData |-> rawData, source |-> source, kind |-> kind,
     outcome |-> NoOutcome]

NoNorm == [pc |-> "idle"]

\* normalizeMarketData runs: it throws, or returns its record
Normalize ==
    /\ norm.pc = "called"
    /\ norm' = [norm EXCEPT
                  !.pc = "done",
                  !.outcome =
                      IF NormalizeThrows(norm.rawData, norm.source)
                        THEN [kind |-> "throw"]
                        ELSE [kind |-> "return",
                              record |-> NormalizeMarketData(norm.rawData, norm.source,
                                                             norm.kind, now)]]
    /\ UNCHANGED nonNormVars

NormVarsInit == norm = NoNorm

NextNormalizer == Normalize

-----------------------------------------------------------------------------
(* Specifications *)

BreakerInit ==
    /\ cb = NewBreaker
    /\ pending = [normal |-> 0, probe |-> 0]
    /\ lastEvent = "none"
    /\ streak = 0
    /\ thrown = NothingThrown

Init ==
    /\ now = 0
    /\ BreakerInit
    /\ CacheInit
    /\ OptVarsInit
    /\ RegVarsInit
    /\ WorkerVarsInit
    /\ ServiceVarsInit
    /\ NormVarsInit

\* the optimizer some time after process start, with requests already recorded
InitOptimizer ==
    /\ now = StartTime
    /\ BreakerInit
    /\ CacheInit
    /\ \E seed \in [ProviderIds -> Seeds] :
          /\ metrics = [id \in AllIds |-> IF id \in ProviderIds THEN seed[id].m ELSE NoMetrics]
          /\ history = [id \in AllIds |-> IF id \in ProviderIds THEN seed[id].h ELSE <<>>]
    /\ optReq = NoReq
    /\ optOrder = <<>>
    /\ optPrio = <<>>
    /\ skipRet = [id |-> "none", ret |-> FALSE, m |-> NoMetrics]
    /\ optRet = NoRet
    /\ optOps = 0
    /\ swept = 0
    /\ RegVarsInit
    /\ WorkerVarsInit
    /\ ServiceVarsInit
    /\ NormVarsInit

\* a registry some time after process start: each provider never called so
\* far, or vetoed; the stock keys set or not
InitRegistry ==
    /\ now = StartTime
    /\ BreakerInit
    /\ CacheInit
    /\ domain \in Domains
    /\ hasKey \in [EnvKeyIds -> BOOLEAN]
    /\ \A id \in EnvKeyIds \ IdsOf(ProvidersOf(domain)) : ~hasKey[id]
    /\ \E seed \in [IdsOf(ProvidersOf(domain)) -> RegistrySeeds \cup KeylessSeeds] :
          /\ \A id \in DOMAIN seed : seed[id] \in SeedsOf(domain, id, hasKey)
          /\ metrics = [id \in AllIds |->
                          IF id \in DOMAIN seed THEN seed[id].m ELSE NoMetrics]
          /\ history = [id \in AllIds |->
                          IF id \in DOMAIN seed THEN seed[id].h ELSE <<>>]
          /\ breakers = [id \in AllIds |->
                           IF id \in DOMAIN seed THEN seed[id].b ELSE NewBreaker]
    /\ optReq = NoReq
    /\ optOrder = <<>>
    /\ optPrio = <<>>
    /\ skipRet = [id |-> "none", ret |-> FALSE, m |-> NoMetrics]
    /\ optRet = NoRet
    /\ optOps = 0
    /\ swept = 0
    /\ walk = IdleWalk
    /\ walks = 0
    /\ WorkerVarsInit
    /\ ServiceVarsInit
    /\ NormVarsInit

\* the service some time after process start: the worker has run or not,
\* so that the cache holds its entry for a domain or none, and the store
\* holds records of a domain or none
InitService ==
    /\ now = 0
    /\ BreakerInit
    /\ OptVarsInit
    /\ RegVarsInit
    /\ lastOp = [op |-> "none", key |-> 0, ret |-> Undefined, evicted |-> {}]
    /\ opClock = 0
    /\ lastTouch = [k \in Keys |-> 0]
    /\ lastSet = [k \in Keys |-> NoSet]
    /\ \E c \in FilledCaches : cache = c
    /\ isRunning = FALSE
    /\ intervalId = [crypto |-> NoTimer, stock |-> NoTimer]
    /\ timers = {}
    /\ nextTimerId = 1
    /\ callbacks = 0
    /\ ticks = <<>>
    /\ db \in [Domains -> {NoRecords, SnapshotSize}]
    /\ lastDone = NoTick
    /\ ServiceVarsInit
    /\ NormVarsInit

\* a provider or a caller hands a raw response to normalizeMarketData
InitNormalizer ==
    /\ now = StartTime
    /\ BreakerInit
    /\ CacheInit
    /\ OptVarsInit
    /\ RegVarsInit
    /\ WorkerVarsInit
    /\ ServiceVarsInit
    /\ \E rawData \in RawObjects, source \in Sources, kind \in Domains :
          norm = NormCall(rawData, source, kind)

\* the optimizer some time after process start, its timer armed at time 0
InitSweep ==
    /\ now = StartTime
    /\ BreakerInit
    /\ CacheInit
    /\ \E seed \in [SweepIds -> SweepSeeds] :
          /\ metrics = [id \in AllIds |-> IF id \in SweepIds THEN seed[id].m ELSE NoMetrics]
          /\ history = [id \in AllIds |-> IF id \in SweepIds THEN seed[id].h ELSE <<>>]
    /\ optReq = NoReq
    /\ optOrder = <<>>
    /\ optPrio = <<>>
    /\ skipRet = [id |-> "none", ret |-> FALSE, m |-> NoMetrics]
    /\ optRet = NoRet
    /\ optOps = 0
    /\ swept = 0
    /\ RegVarsInit
    /\ WorkerVarsInit
    /\ ServiceVarsInit
    /\ NormVarsInit

NextSweep ==
    \/ \E id \in SweepIds : RecordBegin(id)
    \/ \E ok \in BOOLEAN, error \in OperationErrors : RecordEnd(ok, error)
    \/ CleanupMetrics
    \/ SweepClock

\* the providers the other invocations are seen calling: the first two of
\* the registry
OverlapIds(dom) == {ProvidersOf(dom)[1], ProvidersOf(dom)[2]}

\* the registry some time after process start: every key of the domain's
\* providers is configured and the first provider of the registry has served
\* ten slow requests or none, the others none; or every provider that is not
\* passed over for its key is vetoed
InitOverlap ==
    /\ now = StartTime
    /\ BreakerInit
    /\ CacheInit
    /\ domain \in Domains
    /\ hasKey \in [EnvKeyIds -> BOOLEAN]
    /\ \A id \in EnvKeyIds \ IdsOf(ProvidersOf(domain)) : ~hasKey[id]
    /\ \E seed \in [IdsOf(ProvidersOf(domain)) -> OverlapSeeds] :
          /\ \/ /\ \A id \in EnvKeyIds \cap IdsOf(ProvidersOf(domain)) : hasKey[id]
                /\ seed[ProvidersOf(domain)[1]] # SlowSeed(SkipSlowMinRequests + 1)
                /\ \A id \in DOMAIN seed \ {ProvidersOf(domain)[1]} :
                      seed[id].m = NoMetrics
             \/ /\ \A id \in DOMAIN seed : ~ApiKeyMissing(id, hasKey)
                /\ \A id \in DOMAIN seed :
                      IF PassedOver(domain, id, hasKey)
                      THEN seed[id].m = NoMetrics
                      ELSE seed[id] = SlowSeed(SkipSlowMinRequests + 1)
          /\ metrics = [id \in AllIds |->
                          IF id \in DOMAIN seed THEN seed[id].m ELSE NoMetrics]
          /\ history = [id \in AllIds |->
                          IF id \in DOMAIN seed THEN seed[id].h ELSE <<>>]
          /\ breakers = [id \in AllIds |->
                           IF id \in DOMAIN seed THEN seed[id].b ELSE NewBreaker]
    /\ optReq = NoReq
    /\ optOrder = <<>>
    /\ optPrio = <<>>
    /\ skipRet = [id |-> "none", ret |-> FALSE, m |-> NoMetrics]
    /\ optRet = NoRet
    /\ optOps = 0
    /\ swept = 0
    /\ walk = IdleWalk
    /\ walks = 0
    /\ WorkerVarsInit
    /\ ServiceVarsInit
    /\ NormVarsInit

\* the invocation that is followed step by step enters fetchSnapshot
OverlapStart ==
    /\ walks = 0
    /\ WalkStart

\* fetchSnapshot invocations that overlap: one is followed step by step, the
\* others show as the calls they make
NextOverlap ==
    \/ OverlapStart
    \/ FirstPassSkip
    \/ \E outcome \in Outcomes : FirstPassCall(outcome)
    \/ FirstPassEnd
    \/ FallbackSkip
    \/ \E outcome \in Outcomes : FallbackCall(outcome)
    \/ FallbackEnd
    \/ WalkReturn
    \/ \E id \in OverlapIds(domain) : OverlapBegin(id)
    \/ \E outcome \in Outcomes : OverlapEnd(outcome)

NextBreaker == CBExecute \/ CBResolve \/ CBRejectOp \/ BreakerTick

SpecBreaker == Init /\ [][NextBreaker]_vars

SpecCache == Init /\ [][NextCache]_vars

SpecOptimizer == InitOptimizer /\ [][NextOptimizer]_vars

SpecRegistry == InitRegistry /\ [][NextRegistry]_vars

SpecWorker == Init /\ [][NextWorker]_vars

SpecLifecycle == Init /\ [][NextLifecycle]_vars

SpecService == InitService /\ [][NextService]_vars

SpecNormalizer == InitNormalizer /\ [][NextNormalizer]_vars

SpecSweep == InitSweep /\ [][NextSweep]_vars

SpecOverlap == InitOverlap /\ [][NextOverlap]_vars

-----------------------------------------------------------------------------
(* Circuit breaker claims *)

InFlight == pending.normal + pending.probe

\* C1: a failure that brings failureCount to failureThreshold or beyond leaves
\* the breaker OPEN; while failureCount is at the threshold and the last
\* failure is less than recoveryTimeMs old the breaker is OPEN, and a step
\* taken then never invokes a wrapped operation (an execute call is refused).
C1_OpenBreakerRejects ==
    [][ /\ (cb'.failureCount > cb.failureCount /\ cb'.failureCount >= failureThreshold)
            => cb'.state = "OPEN"
        /\ (cb.failureCount >= failureThreshold
                /\ now - cb.lastFailureTime < recoveryTimeMs)
            => /\ cb.state = "OPEN"
               /\ lastEvent' # "invoked"
               /\ InFlight' <= InFlight ]_vars

\* C1 witness: a call was refused by an OPEN breaker inside the window, some
\* time after the failure that opened it
C1_Witness ==
    /\ lastEvent = "rejected"
    /\ cb.state = "OPEN"
    /\ cb.failureCount >= failureThreshold
    /\ now - cb.lastFailureTime > 0
    /\ now - cb.lastFailureTime < recoveryTimeMs

\* C2: a probe (the only call in flight) failing while the breaker is HALF_OPEN leaves it
\* OPEN, whatever successes came before; and HALF_OPEN becomes CLOSED only
\* on the successThreshold-th success in a row.
C2_HalfOpenFailureReopens ==
    [][ /\ (cb.state = "HALF_OPEN" /\ pending.probe = 1 /\ pending.normal = 0
                /\ lastEvent' = "failure" /\ InFlight' < InFlight)
            => cb'.state = "OPEN"
        /\ (cb.state = "HALF_OPEN" /\ cb'.state = "CLOSED")
            => streak' >= successThreshold ]_vars

\* C3: at most one operation admitted in HALF_OPEN is in flight at a time.
C3_SingleProbeInFlight ==
    pending.probe <= 1

\* C23: no step takes the breaker from OPEN to CLOSED, from CLOSED to
\* HALF_OPEN or from HALF_OPEN to a state other than CLOSED and OPEN; a call
\* admitted while CLOSED that succeeds once the breaker is OPEN leaves it OPEN.
C23_LegalTransitions ==
    [][ \/ cb'.state = cb.state
        \/ <<cb.state, cb'.state>> \in {<<"CLOSED", "OPEN">>, <<"OPEN", "HALF_OPEN">>,
                                         <<"HALF_OPEN", "CLOSED">>,
                                         <<"HALF_OPEN", "OPEN">>} ]_vars

\* C25: a call that succeeds sets failureCount to 0; in HALF_OPEN it adds one
\* to successCount and closes the breaker exactly when successCount is then
\* successThreshold, leaving it HALF_OPEN otherwise; in CLOSED it leaves the
\* breaker CLOSED.
C25_OnSuccess ==
    [][ lastEvent' = "success" /\ InFlight' < InFlight
          => /\ cb'.failureCount = 0
             /\ cb.state = "HALF_OPEN"
                  => /\ cb'.successCount = cb.successCount + 1
                     /\ cb'.state = IF cb'.successCount = successThreshold
                                    THEN "CLOSED" ELSE "HALF_OPEN"
             /\ cb.state = "CLOSED" => cb'.state = "CLOSED" ]_vars

\* the successThreshold-th success of a probe has closed the breaker
C25_Witness ==
    /\ lastEvent = "success"
    /\ cb.state = "CLOSED"
    /\ cb.successCount = successThreshold
    /\ streak = successThreshold
    /\ cb.lastFailureTime > 0

\* C26: a call that fails adds one to failureCount and sets lastFailureTime to
\* now; afterwards the breaker is OPEN exactly when failureCount has reached
\* failureThreshold, and in its former state otherwise; the caller gets the
\* error of the operation.
C26_OnFailure ==
    [][ lastEvent' = "failure" /\ InFlight' < InFlight
          => /\ cb'.failureCount = cb.failureCount + 1
             /\ cb'.lastFailureTime = now
             /\ cb'.state = "OPEN" <=> cb'.failureCount >= failureThreshold
             /\ cb'.state # "OPEN" => cb'.state = cb.state
             /\ thrown'.original \in OperationErrors
             /\ thrown'.raised = thrown'.original ]_vars

\* the failureThreshold-th failure has opened the breaker some time after
\* the process started
C26_Witness ==
    /\ lastEvent = "failure"
    /\ cb.state = "OPEN"
    /\ cb.failureCount = failureThreshold
    /\ cb.lastFailureTime = now
    /\ now > 0
    /\ thrown.raised \in OperationErrors

\* C36: whatever the interleaving of execute calls, an OPEN breaker has
\* failureCount at failureThreshold or beyond, a CLOSED breaker has
\* failureCount below failureThreshold, and a HALF_OPEN breaker has
\* successCount below successThreshold.
C36_StateCounters ==
    /\ cb.state = "OPEN" => cb.failureCount >= failureThreshold
    /\ cb.state = "CLOSED" => cb.failureCount < failureThreshold
    /\ cb.state = "HALF_OPEN" => cb.successCount < successThreshold

\* a breaker that closed after a recovery, opened again and is HALF_OPEN for
\* the second time, with two calls in flight
C36_Witness ==
    /\ cb.state = "HALF_OPEN"
    /\ cb.successCount = 0
    /\ cb.failureCount >= failureThreshold
    /\ InFlight = MaxPending
    /\ lastEvent = "invoked"

\* C37: a call refused by the OPEN breaker leaves state, failureCount,
\* lastFailureTime and successCount as they were; a call is refused only
\* while the last failure is less than recoveryTimeMs old, and
\* lastFailureTime moves only when a wrapped operation fails.
C37_RejectionFrame ==
    [][ /\ lastEvent' = "rejected"
            => /\ cb' = cb
               /\ cb.state = "OPEN"
               /\ now - cb.lastFailureTime < recoveryTimeMs
               /\ InFlight' = InFlight
        /\ cb'.lastFailureTime # cb.lastFailureTime => lastEvent' = "failure" ]_vars

\* after refused calls, the first call made recoveryTimeMs after the last
\* failure has been let through
C37_Witness ==
    /\ lastEvent = "invoked"
    /\ cb.state = "HALF_OPEN"
    /\ thrown = NothingThrown
    /\ now - cb.lastFailureTime = recoveryTimeMs
    /\ InFlight = 1

-----------------------------------------------------------------------------
(* Cache claims *)

PositionIn(list, id) == CHOOSE i \in 1 .. Len(list) : list[i] = id

GoodCall(c) == c.kind = "ok" /\ c.records > 0

\* C4: fetchSnapshot has first-success semantics: the provider calls of one
\* invocation are made in walk order, the first call that returns a non-empty
\* array is the last call of the invocation, and the invocation returns that
\* call's records; an invocation returns a provider's records only so.
C4_FirstSuccess ==
    LET n == Len(walk.calls)
        orderOf(c) == IF c.pass = "first" THEN walk.order ELSE ProvidersOf(domain)
    IN  /\ \A i, j \in 1 .. n :
              i < j => PositionIn(orderOf(walk.calls[i]), walk.calls[i].id)
                         < PositionIn(orderOf(walk.calls[j]), walk.calls[j].id)
        /\ \A i \in 1 .. n :
              GoodCall(walk.calls[i])
                => /\ i = n
                   /\ walk.pc = "done"
                   /\ walk.result = [kind |-> "return", source |-> walk.calls[i].id,
                                     records |-> walk.calls[i].records]
        /\ walk.pc = "done" /\ walk.result.source # "none"
              => /\ n > 0
                 /\ GoodCall(walk.calls[n])
                 /\ walk.result.source = walk.calls[n].id

\* the first provider fails, the second returns records, and a third that
\* would have been called is next in the order
C4_Witness ==
    /\ walk.pc = "done"
    /\ Len(walk.calls) = 2
    /\ walk.calls[1].pass = "first"
    /\ walk.calls[1].kind = "throw"
    /\ GoodCall(walk.calls[2])
    /\ walk.idx < Len(walk.order)
    /\ ~PassedOver(domain, walk.order[walk.idx + 1], hasKey)
    /\ ~ShouldSkipProvider(metrics[walk.order[walk.idx + 1]])

FallbackCalls == SelectSeq(walk.calls, LAMBDA c : c.pass = "fallback")
Eligible ==
    SelectSeq(ProvidersOf(domain), LAMBDA id : ~PassedOver(domain, id, hasKey))

C12_TotalFailure ==
    walk.pc = "done" /\ walk.op = "snapshot"
       => /\ (\A i \in 1 .. Len(walk.calls) : ~GoodCall(walk.calls[i]))
               => walk.result =
                     IF domain = "crypto"
                     THEN [kind |-> "throw", source |-> "none", records |-> 0]
                     ELSE [kind |-> "return", source |-> "none", records |-> 0]
          /\ walk.result.kind = "throw"
               => /\ domain = "crypto"
                  /\ walk.result.source = "none"
                  /\ \A i \in 1 .. Len(walk.calls) : ~GoodCall(walk.calls[i])

\* the stock registry returns the empty array after a request of one
\* provider has thrown and another has returned nothing
C12_Witness ==
    /\ walk.pc = "done"
    /\ domain = "stock"
    /\ walk.result = [kind |-> "return", source |-> "none", records |-> 0]
    /\ \E i \in 1 .. Len(walk.calls) : walk.calls[i].kind = "throw" /\ walk.calls[i].invoked
    /\ \E i \in 1 .. Len(walk.calls) : walk.calls[i].kind = "ok"

KeyAbsent(dom, id, keys) ==
    \/ dom = "stock" /\ RequiresKey(id) /\ ~HasRequiredKey(id, keys)
    \/ ApiKeyMissing(id, keys)
RequestsOf(m) == IF m = NoMetrics THEN 0 ELSE m.totalRequests

\* C14: a provider whose API key is absent is left out of the walk: its
\* fetchSnapshot is never called, and no step records a request in its
\* optimizer metrics or changes its breaker.
C14_KeylessProviderExcluded ==
    [][\A id \in IdsOf(ProvidersOf(domain)) :
          KeyAbsent(domain, id, hasKey)
             => /\ \A i \in 1 .. Len(walk'.calls) : walk'.calls[i].id # id
                /\ RequestsOf(metrics'[id]) = RequestsOf(metrics[id])
                /\ breakers'[id] = breakers[id]]_vars

\* C13: fetchHistory never throws: it calls the history-capable providers
\* in the registry's order, returns the series of the first call that has
\* one, and returns the empty array when no call has.
C13_FetchHistoryNeverThrows ==
    walk.op = "history"
       => /\ \A i \in 1 .. Len(walk.calls) :
                 /\ walk.calls[i].pass = "history"
                 /\ "history" \in Capabilities(walk.calls[i].id)
          /\ walk.pc = "done"
               => /\ walk.result.kind = "return"
                  /\ IF \E i \in 1 .. Len(walk.calls) : GoodCall(walk.calls[i])
                     THEN LET first == CHOOSE i \in 1 .. Len(walk.calls) :
                                          GoodCall(walk.calls[i])
                          IN  /\ first = Len(walk.calls)
                              /\ walk.result.source = walk.calls[first].id
                              /\ walk.result.records = walk.calls[first].records
                     ELSE /\ walk.result = [kind |-> "return", source |-> "none",
                                            records |-> 0]
                          /\ [i \in 1 .. Len(walk.calls) |-> walk.calls[i].id]
                               = SelectSeq(ProvidersOf(domain),
                                    LAMBDA id : ~HistoryPassedOver(domain, id, hasKey))

\* fetchHistory returns the empty array after one provider's request has
\* thrown and another's has returned nothing
C13_Witness ==
    /\ walk.op = "history"
    /\ walk.pc = "done"
    /\ walk.result.records = 0
    /\ \E i \in 1 .. Len(walk.calls) : walk.calls[i].kind = "throw" /\ walk.calls[i].invoked
    /\ \E i \in 1 .. Len(walk.calls) : walk.calls[i].kind = "ok"

\* C27: a set of a key the cache holds puts the new value and the new expiry
\* at the most recently used position, leaves every other entry where it
\* was, and evicts nothing, so that the size stays the same.
C27_SetOverwrites ==
    [][ (lastOp'.op = "set" /\ opClock' = opClock + 1
            /\ lastOp'.key \in KeysOf(cache))
        => LET k == lastOp'.key
           IN  /\ Len(cache') = Len(cache)
               /\ cache'[Len(cache')] =
                     [key |-> k, value |-> lastSet'[k].value,
                      expiry |-> now + lastSet'[k].ttl]
               /\ Remove(cache', k) = Remove(cache, k)
               /\ lastOp'.evicted = {} ]_vars

\* the cache was filled and its oldest key set again, a clock step later
\* and with the other TTL: the set evicted nothing and the cache is full
C27_Witness ==
    /\ lastOp.op = "set"
    /\ lastOp.evicted = {}
    /\ opClock = Capacity + 1
    /\ Len(cache) = Capacity
    /\ cache[Len(cache)].key = lastOp.key
    /\ \A i \in 1 .. Len(cache) - 1 :
          /\ lastTouch[cache[i].key] = i + 1
          /\ lastSet[cache[i].key].at = 0
    /\ lastSet[lastOp.key].at > 0

\* the call a step of the first pass has added to the walk, if any
NewCall == walk'.calls[Len(walk'.calls)]
FirstPassCalls ==
    /\ walk.op = "snapshot"
    /\ walk.pc = "first"
    /\ Len(walk'.calls) = Len(walk.calls) + 1

C32_OneOrderSequential ==
    [][ (walk.op = "snapshot" /\ walk.pc \in {"first", "fallback"})
          => /\ walk'.order = walk.order
             /\ Len(walk'.calls) <= Len(walk.calls) + 1
             /\ Len(walk'.calls) = Len(walk.calls) + 1
                  => /\ \A i \in 1 .. Len(walk.calls) : ~GoodCall(walk.calls[i])
                     /\ walk.pc = "first"
                          => /\ NewCall.id = walk.order[walk.idx]
                             /\ \A i \in 1 .. Len(walk.calls) :
                                   PositionIn(walk.order, walk.calls[i].id) < walk.idx
                     /\ walk.pc = "fallback"
                          => NewCall.id = ProvidersOf(domain)[walk.idx] ]_vars

\* the walk has just called a provider although, by the metrics another
\* invocation has recorded meanwhile for a provider further down its order,
\* sorting again would put that provider first
C32_Witness ==
    /\ walk.op = "snapshot"
    /\ walk.pc = "first"
    /\ walk.calls # <<>>
    /\ LET last == walk.calls[Len(walk.calls)].id
           again == OptimizeProviderOrder(ProvidersOf(domain), metrics, now)
       IN  \E id \in IdsOf(ProvidersOf(domain)) :
              /\ PositionIn(walk.order, id) > PositionIn(walk.order, last)
              /\ RequestsOf(metrics[id]) > 0
              /\ PositionIn(again, id) < PositionIn(again, last)
              /\ PositionIn(again, id) < PositionIn(walk.order, id)

Vetoed(m) == m # NoMetrics /\ ShouldSkipProvider(m)

\* C39: in a fetchSnapshot invocation, while a provider of the registry is
\* vetoed by shouldSkipProvider and another provider of the registry is not,
\* no step calls the vetoed provider or changes its metrics; a call of the
\* unfiltered second pass changes no provider's metrics or samples; and no
\* step of the invocation lifts a veto.
C39_VetoHolds ==
    [][ walk.op = "snapshot"
          => /\ \A id \in IdsOf(ProvidersOf(domain)) :
                   (/\ Vetoed(metrics[id])
                    /\ \E other \in IdsOf(ProvidersOf(domain)) \ {id} :
                          ~Vetoed(metrics[other]))
                      => /\ Len(walk'.calls) = Len(walk.calls) + 1 => NewCall.id # id
                         /\ metrics'[id] = metrics[id]
             /\ walk.pc = "fallback" => metrics' = metrics /\ history' = history
             /\ \A id \in IdsOf(ProvidersOf(domain)) :
                   Vetoed(metrics[id]) => Vetoed(metrics'[id]) ]_vars

\* C33: a call that returns the empty array leaves the provider's breaker
\* with failureCount 0 and not OPEN, and the walk goes on to the next
\* provider without a result; in the first pass it is recorded as a
\* successful request: recentFailures as before, consecutiveFailures 0.
C33_EmptyIsSuccess ==
    [][ (walk.pc \in {"first", "fallback"} /\ walk.op = "snapshot"
            /\ Len(walk'.calls) = Len(walk.calls) + 1
            /\ NewCall.kind = "ok" /\ NewCall.records = 0)
          => /\ breakers'[NewCall.id].failureCount = 0
             /\ breakers'[NewCall.id].state # "OPEN"
             /\ walk'.pc = walk.pc
             /\ walk'.idx = walk.idx + 1
             /\ walk'.result = NoResult
             /\ walk.pc = "first"
                  => /\ metrics'[NewCall.id].totalRequests
                           = metrics[NewCall.id].totalRequests + 1
                     /\ metrics'[NewCall.id].recentFailures
                           = metrics[NewCall.id].recentFailures
                     /\ metrics'[NewCall.id].consecutiveFailures = 0 ]_vars

\* a provider that had failed before returned the empty array, and the walk
\* went on to call the next provider
C33_Witness ==
    /\ walk.op = "snapshot"
    /\ \E i \in 1 .. Len(walk.calls) - 1 :
          LET c == walk.calls[i]
          IN  /\ c.pass = "first"
              /\ c.kind = "ok"
              /\ c.records = 0
              /\ metrics[c.id].recentFailures > 0
              /\ metrics[c.id].consecutiveFailures = 0
              /\ breakers[c.id].failureCount = 0
              /\ walk.calls[i + 1].id # c.id

\* C24: while a provider's breaker is OPEN and refuses calls, no step of a
\* walk records a request in that provider's metrics or counts it as
\* attempted.
C24_OpenBreakerSkipped ==
    [][\A id \in IdsOf(ProvidersOf(domain)) :
          breakers[id].state = "OPEN" /\ CircuitRejects(breakers[id], now)
             => /\ RequestsOf(metrics'[id]) = RequestsOf(metrics[id])
                /\ metrics[id] # NoMetrics
                     => /\ metrics'[id].recentFailures = metrics[id].recentFailures
                        /\ metrics'[id].consecutiveFailures
                              = metrics[id].consecutiveFailures
                /\ (walk.pc = "first" /\ walk.idx <= Len(walk.order)
                       /\ walk.order[walk.idx] = id)
                     => walk'.attempted = walk.attempted]_vars

\* C6: get(key) returns the value stored by the last set(key, v, T) at time s
\* (not deleted or evicted since) when now - s < T, and undefined when
\* now - s >= T.
C6_TtlExpiry ==
    [][ (lastOp'.op = "get" /\ opClock' = opClock + 1
            /\ lastSet[lastOp'.key] # NoSet)
        => LET s == lastSet[lastOp'.key]
           IN  lastOp'.ret = IF now - s.at < s.ttl THEN s.value ELSE Undefined ]_vars

\* the existing key least recently touched by a get or a set
LeastRecentlyTouched ==
    CHOOSE k \in KeysOf(cache) : \A j \in KeysOf(cache) : lastTouch[k] <= lastTouch[j]

\* C7: a set of a key that is not stored, on a cache holding Capacity entries,
\* removes exactly the stored key least recently touched by a get or a set
\* and keeps every other stored key.
C7_LruEviction ==
    [][ (lastOp'.op = "set" /\ opClock' = opClock + 1
            /\ lastOp'.key \notin KeysOf(cache) /\ Len(cache) = Capacity)
        => /\ KeysOf(cache') = (KeysOf(cache) \ {LeastRecentlyTouched}) \cup {lastOp'.key}
           /\ Len(cache') = Capacity ]_vars

\* C7 witness: a set has evicted a key, and the victim was stored or read
\* after the first operation on the cache
C7_Witness ==
    /\ lastOp.op = "set"
    /\ Len(cache) = Capacity
    /\ \E e \in lastOp.evicted : lastTouch[e] > 1

\* C38: after any sequence of get, set, has, delete and clear on a cache of
\* capacity at least 1, the cache holds at most capacity entries, and one
\* set has evicted at most one entry.
C38_SizeBound ==
    /\ Len(cache) <= Capacity
    /\ Cardinality(KeysOf(cache)) = Len(cache)
    /\ Cardinality(lastOp.evicted) <= 1

\* a set of a new key into the full cache has evicted one entry
C38_Witness ==
    /\ lastOp.op = "set"
    /\ Cardinality(lastOp.evicted) = 1
    /\ Len(cache) = Capacity
    /\ opClock = MaxOps

\* C40: has(key) returns true exactly when get(key) would return the stored
\* value; it removes the entry when it is expired and otherwise leaves the
\* cache, the position of every entry included, as it was.
C40_HasKeepsOrder ==
    [][ (lastOp'.op = "has" /\ opClock' = opClock + 1)
          => LET k == lastOp'.key
                 got == CacheGet(cache, k, now)
             IN  /\ lastOp'.ret = (got.ret # Undefined)
                 /\ (k \in KeysOf(cache) /\ got.ret = Undefined)
                      => cache' = Remove(cache, k)
                 /\ (k \notin KeysOf(cache) \/ got.ret # Undefined)
                      => cache' = cache ]_vars

\* has has found the least recently used entry of the full cache, which is
\* still the entry the next set of a new key evicts
C40_Witness ==
    /\ lastOp.op = "has"
    /\ lastOp.ret = TRUE
    /\ Len(cache) = Capacity
    /\ cache[1].key = lastOp.key
    /\ CacheSet(cache, CHOOSE k \in Keys : k \notin KeysOf(cache), "crypto",
                CRYPTO_SNAPSHOT, now)[1].key # lastOp.key

-----------------------------------------------------------------------------
(* Optimizer claims *)

\* the condition the specification gives for shouldSkip
SkipCondition(m) ==
    /\ m.totalRequests >= 5
    /\ \/ m.consecutiveFailures >= 10
       \/ m.totalRequests > 20 /\ 10 * m.successRate.n < m.successRate.d
       \/ m.averageResponseTime.n > 30000 * m.averageResponseTime.d
             /\ m.totalRequests > 10

\* C30: a recordProviderRequest call that ends has added one to
\* totalRequests; after a success consecutiveFailures is 0 and
\* lastSuccessTime is now; after a failure recentFailures and
\* consecutiveFailures have grown by one and the caller gets the error of
\* the operation; either way successRate and averageResponseTime are those of
\* the new counters and samples, the response time is the newest sample, and
\* the samples are the last HistorySize at most.
C30_RecordRequest ==
    [][ optReq # NoReq /\ optReq' = NoReq
        => LET id == optReq.id
               m == metrics[id]
               n == metrics'[id]
               h == history[id]
               g == history'[id]
               rt == now - optReq.startTime
           IN  /\ optRet'.id = id
               /\ n.totalRequests = m.totalRequests + 1
               /\ IF optRet'.ok
                  THEN /\ n.consecutiveFailures = 0
                       /\ n.lastSuccessTime = now
                       /\ n.recentFailures = m.recentFailures
                       /\ optRet'.thrown.raised = NoError
                  ELSE /\ n.recentFailures = m.recentFailures + 1
                       /\ n.consecutiveFailures = m.consecutiveFailures + 1
                       /\ n.lastSuccessTime = m.lastSuccessTime
                       /\ optRet'.thrown.original \in OperationErrors
                       /\ optRet'.thrown.raised = optRet'.thrown.original
               /\ n.successRate.n * n.totalRequests
                     = (n.totalRequests - n.recentFailures) * n.successRate.d
               /\ n.averageResponseTime.n * Len(g) = SumSeq(g) * n.averageResponseTime.d
               /\ Len(g) <= HistorySize
               /\ g = IF Len(h) >= HistorySize
                      THEN Append(Tail(h), rt)
                      ELSE Append(h, rt) ]_vars

\* a success, slower than the samples before it, is the eleventh request of
\* a provider: the oldest sample has gone and the newest is the response time
C30_Witness ==
    /\ optRet.id # "none"
    /\ optRet.ok
    /\ optReq = NoReq
    /\ metrics[optRet.id].totalRequests = HistorySize + 1
    /\ metrics[optRet.id].consecutiveFailures = 0
    /\ Len(history[optRet.id]) = HistorySize
    /\ history[optRet.id][HistorySize] = optRet.responseTime
    /\ history[optRet.id][1] # optRet.responseTime

\* twice the sum the specification gives for the dynamic priority, times the
\* denominator of the success rate
PrioritySum(priority, m, t) ==
    LET d == m.successRate.d
        fast == IF m.averageResponseTime.n < 1000 * m.averageResponseTime.d THEN 1 ELSE 0
        slow == IF m.averageResponseTime.n > 5000 * m.averageResponseTime.d THEN 1 ELSE 0
        recent == IF t - m.lastSuccessTime < 60000 THEN 1 ELSE 0
    IN  2 * d * priority - 2 * (2 * m.successRate.n - d) - 2 * d * fast
          + 4 * d * slow + d * m.consecutiveFailures - d * recent

\* C31: the dynamic priority optimizeProviderOrder computes for a provider
\* is the larger of 0 and priority - 2 * (successRate - 0.5) - (1 if
\* averageResponseTime < 1000) + (2 if averageResponseTime > 5000) + 0.5 *
\* consecutiveFailures - (0.5 if the last success is less than 60 s old), and
\* it is never negative.
C31_DynamicPriority ==
    [][ optPrio' # optPrio
          => \A id \in DOMAIN optPrio' :
                LET m == metrics'[id]
                    sum == PrioritySum(Priority(id), m, now)
                    p == optPrio'[id]
                IN  /\ p.d > 0
                    /\ p.n >= 0
                    /\ p.n * 2 * m.successRate.d
                          = (IF sum > 0 THEN sum ELSE 0) * p.d ]_vars

\* priorities were computed for a provider whose sum is negative and for one
\* that is slow, fails and has had no success for a minute
C31_Witness ==
    /\ optPrio # <<>>
    /\ \E id \in DOMAIN optPrio :
          /\ optPrio[id].n = 0
          /\ PrioritySum(Priority(id), metrics[id], now) < 0
    /\ \E id \in DOMAIN optPrio :
          /\ optPrio[id].n > 0
          /\ metrics[id].consecutiveFailures > 0
          /\ metrics[id].averageResponseTime.n > 5000 * metrics[id].averageResponseTime.d
          /\ now - metrics[id].lastSuccessTime >= 60000

\* C34: when the cleanupMetrics timer fires, a provider that has a request
\* in flight is not inactive: its recentFailures is not decremented, and its
\* metrics and response-time history are not evicted.
C34_SweepSparesActive ==
    [][ (swept' # swept /\ optReq # NoReq /\ metrics[optReq.id] # NoMetrics)
          => /\ metrics'[optReq.id] # NoMetrics
             /\ metrics'[optReq.id].recentFailures = metrics[optReq.id].recentFailures
             /\ history'[optReq.id] = history[optReq.id] ]_vars

\* C35: each provider's stored successRate is (totalRequests -
\* recentFailures) / totalRequests, or 1 when totalRequests is 0, and its
\* stored averageResponseTime is the mean of its response-time history, also
\* after the timer has fired and after a request that outlived its record.
C35_DerivedMetrics ==
    \A id \in AllIds :
       metrics[id] # NoMetrics
          => LET m == metrics[id]
                 h == history[id]
             IN  /\ IF m.totalRequests = 0
                    THEN m.successRate.n = m.successRate.d
                    ELSE m.successRate.n * m.totalRequests
                            = (m.totalRequests - m.recentFailures) * m.successRate.d
                 /\ IF h = <<>>
                    THEN m.averageResponseTime.n = 0
                    ELSE m.averageResponseTime.n * Len(h)
                            = SumSeq(h) * m.averageResponseTime.d

OpsOf(events) == [i \in 1 .. Len(events) |-> events[i].op]
ArgsOf(events, op) ==
    LET sel == SelectSeq(events, LAMBDA e : e.op = op)
    IN  [i \in 1 .. Len(sel) |-> sel[i].arg]

\* C8: a fetchWithRetry invocation whose registry call throws on attempts 1
\* and 2 and returns on attempt 3 sleeps exactly twice, for retryBackoffMs
\* and then 2 * retryBackoffMs, both before the cache write and the
\* notification, and it writes the cache once and notifies once.
C8_RetryBackoff ==
    lastDone # NoTick /\ ArgsOf(lastDone.events, "call") = <<0, 0, 1>>
       => /\ OpsOf(lastDone.events)
               = <<"call", "sleep", "call", "sleep", "call", "set", "save", "notify">>
          /\ ArgsOf(lastDone.events, "sleep") = <<retryBackoffMs, 2 * retryBackoffMs>>

\* such an invocation has returned, the clock having run through both sleeps
C8_Witness ==
    /\ lastDone.pc = "done"
    /\ lastDone.kind = "crypto"
    /\ lastDone.attempt = retryAttempts
    /\ ArgsOf(lastDone.events, "call") = <<0, 0, 1>>
    /\ now >= retryBackoffMs + 2 * retryBackoffMs
    /\ CacheKey("crypto") \in KeysOf(cache)

OpsIn(tick) == {tick.events[i].op : i \in 1 .. Len(tick.events)}
LastOps(tick, n) ==
    OpsOf(SubSeq(tick.events, Len(tick.events) - n + 1, Len(tick.events)))

\* C15: a fetchWithRetry invocation whose registry call ends without records
\* of any provider leaves the cache and the stored records as they were, and
\* an invocation that never had records writes no cache entry and notifies
\* nobody.
C15_FailedTickLeavesDataStale ==
    /\ [][(\E i \in 1 .. Len(ticks) :
              /\ ticks[i].pc = "call"
              /\ Len(ticks') = Len(ticks)
              /\ ticks'[i].pc \in {"save", "sleep"}
              /\ ticks'[i].data = 0)
            => cache' = cache /\ db' = db]_vars
    /\ [](lastDone # NoTick /\ lastDone.data = 0
            => OpsIn(lastDone) \cap {"set", "notify"} = {})

\* C17: while the worker is stopped no interval timer is armed and no
\* fetchWithRetry invocation begins; stop() leaves the invocations in flight
\* as they are, and their registry calls still settle afterwards.
C17_StopClearsTimers ==
    /\ [](~isRunning
            => /\ timers = {}
               /\ intervalId = [crypto |-> NoTimer, stock |-> NoTimer]
               /\ \A i \in 1 .. Len(ticks) :
                     ticks[i].pc = "call"
                        => ENABLED (\E result \in RegistryResults(ticks[i].kind) :
                                       \/ TickCallReturns(i, result)
                                       \/ TickCallThrows(i, result)))
    /\ [][~isRunning /\ ~isRunning' => Len(ticks') <= Len(ticks)]_vars
    /\ [][isRunning /\ ~isRunning' => ticks' = ticks /\ lastDone' = lastDone]_vars

\* the worker is stopped while an invocation sleeps in its backoff and
\* another awaits its registry call
C17_Witness ==
    /\ ~isRunning
    /\ \E i \in 1 .. Len(ticks) : ticks[i].pc = "sleep"
    /\ \E i \in 1 .. Len(ticks) : ticks[i].pc = "call" /\ ticks[i].attempt > 1

\* C18: start() on a running worker and stop() on a stopped worker change
\* nothing, and at no time is more than one interval timer armed per domain.
C18_StartStopIdempotent ==
    /\ \A kind \in Domains : Cardinality({tm \in timers : tm.kind = kind}) <= 1
    /\ isRunning => ~ENABLED <<WorkerStart>>_vars
    /\ ~isRunning => ~ENABLED <<WorkerStop>>_vars

\* start() can be called on a worker that runs with both its timers armed
\* and invocations in flight
C18_Witness ==
    /\ isRunning
    /\ Cardinality(timers) = 2
    /\ Len(ticks) = MaxWorkerTicks
    /\ ENABLED WorkerStart

\* C19: an invocation that had a registry result notifies once, calling every
\* registered callback once, in registration order, with the records and the
\* domain, whichever callbacks throw; after that it returns without another
\* registry call.
C19_SubscribersIsolated ==
    /\ \A i \in 1 .. Len(ticks) : "notify" \notin OpsIn(ticks[i])
    /\ lastDone # NoTick /\ "set" \in OpsIn(lastDone)
          => /\ LastOps(lastDone, 3) = <<"set", "save", "notify">>
             /\ Len(ArgsOf(lastDone.events, "notify")) = 1
             /\ LET n == ArgsOf(lastDone.events, "notify")[1]
                IN  /\ n.invoked = [j \in 1 .. n.registered |-> j]
                    /\ n.records = lastDone.data
                    /\ n.kind = lastDone.kind

\* two callbacks are registered, the first throws, and both have been called
C19_Witness ==
    /\ lastDone.pc = "done"
    /\ "notify" \in OpsIn(lastDone)
    /\ LET n == ArgsOf(lastDone.events, "notify")[1]
       IN  n.registered = 2 /\ n.threw = {1} /\ n.invoked = <<1, 2>>

\* C20: an invocation whose save to the store failed still has written the
\* cache, still notifies, and returns without another registry call.
C20_PersistenceBestEffort ==
    /\ \A i \in 1 .. Len(ticks) :
          "save" \in OpsIn(ticks[i]) => ticks[i].pc = "done"
    /\ lastDone # NoTick /\ "save" \in OpsIn(lastDone)
          => /\ LastOps(lastDone, 4) = <<"call", "set", "save", "notify">>
             /\ Len(ArgsOf(lastDone.events, "set")) = 1
             /\ Len(ArgsOf(lastDone.events, "save")) = 1
             /\ CacheKey(lastDone.kind) \in KeysOf(cache)

\* records were fetched, the store refused them, and a registered callback
\* was called all the same
C20_Witness ==
    /\ lastDone.pc = "done"
    /\ lastDone.data > 0
    /\ ArgsOf(lastDone.events, "save") = <<0>>
    /\ db[lastDone.kind] = NoRecords
    /\ ArgsOf(lastDone.events, "notify")[1].invoked # <<>>
    /\ Lookup(cache, CacheKey(lastDone.kind)).value = lastDone.kind

\* C11: a getMarketSnapshot call makes no registry call and writes no cache
\* entry, and what it does not return from the cache it reads from the store.
C11_ReadPathIsPassive ==
    /\ read.registryCalls = 0
    /\ read.cacheWrites = 0
    /\ read.pc = "done" /\ read.source # "cache" => read.source = "store"

\* C16: a getMarketSnapshot call throws nothing, and one that found no live
\* cache entry and whose registry had no records of any provider returns the
\* records of the store whenever the store has some.
C16_FallbackToStore ==
    read.pc = "done"
       => /\ ~read.threw
          /\ read.source # "cache" /\ read.failed /\ read.stored > 0
                => read.ret = read.stored

AllFailed == [k \in 1 .. retryAttempts |-> 0]
EventsOf(tick, op) == SelectSeq(tick.events, LAMBDA e : e.op = op)

\* what C28 asks of one fetchWithRetry invocation, in flight or returned
BoundedRetries(tick) ==
    LET calls == ArgsOf(tick.events, "call")
        sleeps == ArgsOf(tick.events, "sleep")
    IN  /\ tick.attempt <= retryAttempts
        /\ Len(calls) <= retryAttempts
        /\ Len(sleeps) <= retryAttempts - 1
        /\ Len(sleeps) <= Len(calls)
        /\ \A k \in 1 .. Len(sleeps) :
              /\ calls[k] = 0
              /\ sleeps[k] = retryBackoffMs * 2 ^ (k - 1)
        /\ calls = AllFailed
              => /\ tick.pc = "done"
                 /\ OpsIn(tick) = {"call", "sleep"}

\* C28: a fetchWithRetry invocation makes at most retryAttempts registry
\* calls and sleeps at most retryAttempts - 1 times, after its k-th call has
\* thrown for retryBackoffMs * 2^(k-1); once retryAttempts calls have thrown
\* it has returned, having written no cache entry, saved nothing and
\* notified nobody.
C28_BoundedRetries ==
    /\ \A i \in 1 .. Len(ticks) :
          BoundedRetries(ticks[i]) /\ ArgsOf(ticks[i].events, "call") # AllFailed
    /\ lastDone # NoTick => BoundedRetries(lastDone)

\* the crypto registry has thrown retryAttempts times, the clock has run
\* through both sleeps, and the cache and the store have no crypto records
C28_Witness ==
    /\ lastDone.pc = "done"
    /\ lastDone.kind = "crypto"
    /\ ArgsOf(lastDone.events, "call") = AllFailed
    /\ ArgsOf(lastDone.events, "sleep") = <<retryBackoffMs, 2 * retryBackoffMs>>
    /\ now >= 3 * retryBackoffMs
    /\ CacheKey("crypto") \notin KeysOf(cache)
    /\ db["crypto"] = NoRecords

\* C29: an invocation that notifies has written the cache and then begun the
\* save of every record before it, so that at the callbacks the cache holds
\* the records of the notification and the store holds them too.
C29_WriteThroughOrder ==
    [][\A i \in 1 .. Len(ticks) :
          (ticks[i].pc = "save" /\ ticks[i].data > 0
             /\ lastDone' # lastDone /\ Len(ticks') < Len(ticks)
             /\ ticks' = Without(ticks, i))
          => /\ LastOps(lastDone', 3) = <<"set", "save", "notify">>
             /\ EventsOf(lastDone', "save")[1].attempted = ticks[i].data
             /\ CacheKey(ticks[i].kind) \in KeysOf(cache')
             /\ RecordsOf(Lookup(cache', CacheKey(ticks[i].kind)).value) = ticks[i].data
             /\ db'[ticks[i].kind] = ticks[i].data]_vars

\* C9: shouldSkipProvider returns true exactly when totalRequests >= 5 and
\* (consecutiveFailures >= 10, or totalRequests > 20 with successRate < 0.1,
\* or averageResponseTime > 30000 with totalRequests > 10); so it is false
\* whenever totalRequests < 5.
C9_ShouldSkipCondition ==
    skipRet.id # "none"
    => /\ skipRet.ret = SkipCondition(skipRet.m)
       /\ skipRet.m.totalRequests < 5 => ~skipRet.ret

\* C9 witnesses: each way of being skipped, and the cold start with every
\* request failed
C9_Witness ==
    /\ skipRet.id # "none"
    /\ ~skipRet.ret
    /\ skipRet.m.totalRequests = 4
    /\ skipRet.m.consecutiveFailures = 4

C9_WitnessRate ==
    /\ skipRet.ret
    /\ skipRet.m.consecutiveFailures < 10
    /\ skipRet.m.totalRequests > 20
    /\ 10 * skipRet.m.successRate.n < skipRet.m.successRate.d

C9_WitnessSlow ==
    /\ skipRet.ret
    /\ skipRet.m.consecutiveFailures < 10
    /\ skipRet.m.totalRequests = 11
    /\ skipRet.m.averageResponseTime.n > 30000 * skipRet.m.averageResponseTime.d

\* C10: optimizeProviderOrder returns the stable ascending sort of its input
\* by dynamic priority: a lower dynamic priority comes first, and equal
\* dynamic priorities keep the input's order.
C10_StableSortByDynamicPriority ==
    optOrder # <<>>
    => /\ Len(optOrder) = Len(Providers)
       /\ {optOrder[i] : i \in 1 .. Len(optOrder)} = ProviderIds
       /\ \A i, j \in 1 .. Len(optOrder) :
             i < j =>
               /\ ~RLess(optPrio[optOrder[j]], optPrio[optOrder[i]])
               /\ REq(optPrio[optOrder[i]], optPrio[optOrder[j]])
                    => PositionIn(Providers, optOrder[i]) < PositionIn(Providers, optOrder[j])

-----------------------------------------------------------------------------
(* Normalizer claims *)

\* C22: for each of the six supported source ids and for an unrecognized
\* one, normalizeMarketData applied to the empty raw object does not throw
\* and returns a record whose symbol is defined.
C22_NormalizerTotal ==
    (norm.pc = "done" /\ norm.rawData.t = "object" /\ DOMAIN norm.rawData.v = {})
      => /\ norm.outcome.kind = "return"
         /\ norm.outcome.record.symbol.t # "undefined"

====
